---- MODULE Spec2Model ----
(***************************************************************************)
(* Pollivu: the anonymous-vote integrity core.                             *)
(*                                                                         *)
(* The persistent state is the three tables of models.py (polls,           *)
(* poll_options, votes) restricted to the columns the voting protocol      *)
(* reads or writes.  Spec runs the operations of PollService and the       *)
(* option-deletion route one at a time; SpecConc runs PollService.vote as  *)
(* overlapping requests, each holding the rows it has loaded into its own  *)
(* ORM session until it commits.                                           *)
(***************************************************************************)
EXTENDS Bags, FiniteSets, Integers, Sequences, TLC

(***************************************************************************)
(* Bounds of the model.                                                    *)
(***************************************************************************)
MaxSessions == 2
MaxOptionId == 3
MaxTime == 2
MaxDerivations == 2
MaxAddedOptionId == 11

(***************************************************************************)
(* Program constants.                                                      *)
(***************************************************************************)
MIN_POLL_OPTIONS == 2
MAX_POLL_OPTIONS == 10
MAX_OPTION_LENGTH == 200
HOURS_1H == 1
HOURS_24H == 24
HOURS_7D == 168
HOURS_30D == 720

(***************************************************************************)
(* Input pools.  Poll ids are what generate_poll_id can return (16         *)
(* URL-safe characters); session ids are opaque strings, "" being the      *)
(* value the vote route passes when the cookie holds none.                 *)
(***************************************************************************)
PollIds == {"Zk3_pollAAAAAAA1"}
\* The poll ids of the specifications in which two polls exist side by side.
TwoPollIds == PollIds \cup {"q-7XpollBBBBBBB2"}

SessionPool == <<"sA", "", "sB", "sC">>
SessionIds == {SessionPool[i] : i \in 1..MaxSessions}

\* Polls are owned by the users of OwnerIds; requests come from UserIds.
OwnerIds == {1}
UserIds == {1, 2}

\* Texts are sequences of characters.
tA == <<"A">>
tB == <<"B">>
tC == <<"C">>
tBlank == <<" ">>
\* The question of the forms.
FormQuestion == <<"Q">>
OptionLists == { <<tA, tBlank, tB>> }
AddTexts == { <<"a">>, <<" ", "D">>, <<>> }
ExpirationChoices == {"1h", "never", "current"}
OptionIdInputs == 1..MaxOptionId
\* With two polls the option ids run one further, so that the second poll
\* has its two options.
TwoPollOptionIdInputs == 1..(MaxOptionId + 1)
\* The request slots of SpecConc: two calls in flight at once.
ReqIds == {1, 2}

VARIABLES now, polls, options, votes, last, req, base, voted,
          encryption_instances, derivations, rooms, delivered, session, issued

\* The state outside the database: the engines cached by
\* encryption.get_encryption, how many times a key was derived for each
\* secret key, the members of the Socket.IO rooms, the events each client
\* was sent, the Flask session of a browser (its signed cookie) and the
\* session ids generate_session_id has returned so far.
memory == <<encryption_instances, derivations, rooms, delivered, session, issued>>

vars == <<now, polls, options, votes, last, req, base, voted, memory>>
db == <<polls, options, votes>>

(***************************************************************************)
(* utils.py                                                                *)
(***************************************************************************)
\* hashlib.sha256(...).hexdigest(): an injective tag on its input (the
\* digest is taken to be collision-free).
SHA256(message) == <<"sha256", message>>

\* hash_creator_token
hash_creator_token(token) == SHA256(token)

\* The values secrets.token_urlsafe(32) hands out as creator tokens.
CreatorTokens == {"ctA", "ctB", "ctC"}

\* generate_creator_token(): a value no poll was given before (the random
\* tokens are taken not to repeat); the tokens being interchangeable, one
\* unused value stands for all.
generate_creator_token(pls) ==
    LET free == {t \in CreatorTokens :
                    \A p \in DOMAIN pls :
                        pls[p].creator_token_hash # hash_creator_token(t)}
    IN {CHOOSE t \in free : TRUE}

\* Variant: the token is derived from the session id alone.
generate_voter_token_session_only(session_id, poll_id) == SHA256(session_id)

generate_voter_token(session_id, poll_id) == SHA256(session_id \o ":" \o poll_id)

hash_voter_token(token) == SHA256(token)

IsSpace(c) == c \in {" ", "\t", "\n"}

RECURSIVE lstrip(_)
lstrip(t) == IF t # <<>> /\ IsSpace(Head(t)) THEN lstrip(Tail(t)) ELSE t

RECURSIVE rstrip(_)
rstrip(t) ==
    IF t # <<>> /\ IsSpace(t[Len(t)]) THEN rstrip(SubSeq(t, 1, Len(t) - 1)) ELSE t

strip(t) == rstrip(lstrip(t))

\* bleach.clean(text, tags=[], strip=True).strip(); the texts of the model
\* hold no markup characters, on which bleach.clean changes nothing.
sanitize_text(text) == strip(text)

LowerChar(c) ==
    CASE c = "A" -> "a" [] c = "B" -> "b" [] c = "C" -> "c" [] c = "D" -> "d"
      [] OTHER -> c

lower(t) == [i \in 1..Len(t) |-> LowerChar(t[i])]

(***************************************************************************)
(* models.py                                                               *)
(***************************************************************************)
\* Variant: expiration is never looked at.
is_expired_never(poll, t) == FALSE

\* Poll.is_expired
is_expired(poll, t) ==
    IF poll.expires_at = {} THEN FALSE
    ELSE \E e \in poll.expires_at : t > e

\* Poll.is_active
is_active(poll, t) == ~poll.is_closed /\ ~is_expired(poll, t)

\* poll.options (relationship ordered by display_order): the ids of the
\* option rows of a poll.
PollOptions(opts, poll_id) == {o \in DOMAIN opts : opts[o].poll_id = poll_id}

\* [opt.to_dict() for opt in poll.options], reduced to id and vote_count.
Results(opts, poll_id) == [o \in PollOptions(opts, poll_id) |-> opts[o].vote_count]

RECURSIVE SumOver(_, _)
SumOver(f, S) ==
    IF S = {} THEN 0
    ELSE LET x == CHOOSE y \in S : TRUE IN f[x] + SumOver(f, S \ {x})

SumVoteCounts(opts, poll_id) == SumOver(Results(opts, poll_id), PollOptions(opts, poll_id))

\* Rows of the votes table; the surrogate key is not kept (nothing reads
\* it), so the table is a bag of (poll_id, voter_token_hash, option_id).
VoteRow(poll_id, voter_hash, option_id) ==
    [poll_id |-> poll_id, voter_token_hash |-> voter_hash, option_id |-> option_id]

\* The rows of vs that are in the set keep, with their multiplicity.
BagRestrict(vs, keep) == [e \in DOMAIN vs \cap keep |-> vs[e]]

\* Vote.query.filter_by(poll_id=..., voter_token_hash=...)
VotesOf(vs, poll_id, voter_hash) ==
    {v \in DOMAIN vs : v.poll_id = poll_id /\ v.voter_token_hash = voter_hash}

NumVoteRows(vs, poll_id, voter_hash) ==
    BagCardinality(BagRestrict(vs, VotesOf(vs, poll_id, voter_hash)))

\* Variant: the votes table without its uniqueness constraint.
ViolatesUniqueVotePerPoll_off(vs, row) == FALSE

\* UniqueConstraint('poll_id', 'voter_token_hash'): would inserting row
\* into vs be rejected?
ViolatesUniqueVotePerPoll(vs, row) ==
    VotesOf(vs, row.poll_id, row.voter_token_hash) # {}

\* INTEGER PRIMARY KEY of poll_options: one more than the largest id in use.
NextOptionId(opts) ==
    IF DOMAIN opts = {} THEN 1
    ELSE (CHOOSE m \in DOMAIN opts : \A o \in DOMAIN opts : o <= m) + 1

(***************************************************************************)
(* Results handed back to the caller.                                      *)
(***************************************************************************)
NoData == {}

\* What an operation hands back: (success, message, data), or an exception
\* leaving the operation (raised, message naming it).
Outcome(op, poll_id, option_id, session_id, ok, message, data) ==
    [op |-> op, poll_id |-> poll_id, option_id |-> option_id,
     session_id |-> session_id, ok |-> ok, message |-> message,
     raised |-> FALSE, data |-> data]

Raised(op, poll_id, option_id, session_id, exception) ==
    [op |-> op, poll_id |-> poll_id, option_id |-> option_id,
     session_id |-> session_id, ok |-> FALSE, message |-> exception,
     raised |-> TRUE, data |-> NoData]

VoteData(opts, pls, poll_id, option_id) ==
    {[voted_option_id |-> option_id,
      total_votes |-> pls[poll_id].total_votes,
      results |-> Results(opts, poll_id)]}

NoOutcome == Outcome("none", "", 0, "", TRUE, "", NoData)

DB(pls, opts, vs) == [polls |-> pls, options |-> opts, votes |-> vs]

EmptyDB == DB(<<>>, <<>>, EmptyBag)

\* A request's ORM session: the rows it has loaded and not yet written.
IdleReq ==
    [pc |-> "idle", poll_id |-> "", option_id |-> 0, session_id |-> "",
     poll |-> {}, im |-> <<>>, existing |-> {}, insert_rejected |-> FALSE,
     commit_ok |-> TRUE, outcome |-> NoOutcome]

\* The cookie of a browser that has made no request: no session_id, no
\* creator tokens, nobody logged in.
NoSession == [session_id |-> {}, creator_tokens |-> <<>>, user_id |-> {}]

\* Nothing is cached, no key was derived, no client has joined a room, the
\* browser has made no request.
InitMemory ==
    /\ encryption_instances = <<>>
    /\ derivations = <<>>
    /\ rooms = <<>>
    /\ delivered = <<>>
    /\ session = NoSession
    /\ issued = {}

Init ==
    /\ now = 0
    /\ polls = <<>>
    /\ options = <<>>
    /\ votes = EmptyBag
    /\ last = NoOutcome
    /\ req = [r \in ReqIds |-> IdleReq]
    /\ base = EmptyDB
    /\ voted = {}
    /\ InitMemory

AllIdle == \A r \in ReqIds : req[r].pc = "idle"

(***************************************************************************)
(* PollService.create_poll                                                 *)
(***************************************************************************)
ExpiresAt(expiration, t) ==
    CASE expiration = "1h" -> {t + HOURS_1H}
      [] expiration = "24h" -> {t + HOURS_24H}
      [] expiration = "7d" -> {t + HOURS_7D}
      [] expiration = "30d" -> {t + HOURS_30D}
      [] OTHER -> {}

\* The indexes i of the form's options that pass
\* "if option_text and option_text.strip()".
KeptIndexes(option_texts) ==
    {i \in 1..Len(option_texts) : option_texts[i] # <<>> /\ strip(option_texts[i]) # <<>>}

Rank(S, i) == Cardinality({j \in S : j < i})

NewOptionRows(opts, poll_id, option_texts) ==
    LET kept == KeptIndexes(option_texts)
        first == NextOptionId(opts)
    IN [o \in {first + Rank(kept, i) : i \in kept} |->
          LET i == CHOOSE j \in kept : first + Rank(kept, j) = o
          IN [poll_id |-> poll_id,
              option_text |-> sanitize_text(option_texts[i]),
              vote_count |-> 0,
              display_order |-> i - 1]]

create_poll_rows(poll_id, creator_token, question, option_texts, expiration, allow_vote_change, user_id, max_option_id) ==
    /\ last = NoOutcome
    /\ LET rows == NewOptionRows(options, poll_id, option_texts) IN
       \* bound: option ids stay within max_option_id
       /\ \A o \in DOMAIN rows : o <= max_option_id
       /\ IF poll_id \in DOMAIN polls
          THEN \* primary key of polls rejects the insert: rollback, raise
               /\ UNCHANGED db
               /\ last' = Raised("create_poll", poll_id, 0, "", "IntegrityError")
          ELSE /\ polls' = [p \in DOMAIN polls \cup {poll_id} |->
                              IF p = poll_id
                              THEN [question |-> sanitize_text(question),
                                    expires_at |-> ExpiresAt(expiration, now),
                                    allow_vote_change |-> allow_vote_change,
                                    is_closed |-> FALSE,
                                    is_public |-> TRUE,
                                    creator_token_hash |->
                                        hash_creator_token(creator_token),
                                    total_votes |-> 0,
                                    user_id |-> user_id]
                              ELSE polls[p]]
               /\ options' = [o \in DOMAIN options \cup DOMAIN rows |->
                                IF o \in DOMAIN rows THEN rows[o] ELSE options[o]]
               /\ votes' = votes
               /\ last' = Outcome("create_poll", poll_id, 0, "", TRUE, "",
                                  {[creator_token |-> creator_token]})

\* PollService.create_poll called where nothing else of the request
\* writes.
create_poll_within(poll_id, creator_token, question, option_texts, expiration, allow_vote_change, user_id, max_option_id) ==
    /\ create_poll_rows(poll_id, creator_token, question, option_texts, expiration,
                        allow_vote_change, user_id, max_option_id)
    /\ UNCHANGED <<memory, now, req, base, voted>>

\* The same with the option ids of the model bounded by MaxOptionId, one
\* more where a poll exists already.
create_poll(poll_id, creator_token, question, option_texts, expiration, allow_vote_change, user_id) ==
    create_poll_within(poll_id, creator_token, question, option_texts, expiration,
                       allow_vote_change, user_id, MaxOptionId + Cardinality(DOMAIN polls))

(***************************************************************************)
(* PollService.vote, as the steps of one request.  Between two steps the   *)
(* request holds what it has loaded; every query reads the committed       *)
(* state of the moment it is issued, and the commit writes the values the  *)
(* request computed from what it had loaded.                               *)
(***************************************************************************)
\* Variant: no floor.
Max0_none(n) == n

\* max(0, n)
Max0(n) == IF n > 0 THEN n ELSE 0

\* PollService.get_poll, then the call of PollService.vote.
StartReq(poll_id, option_id, session_id, D) ==
    [pc |-> "loaded_poll", poll_id |-> poll_id, option_id |-> option_id,
     session_id |-> session_id, poll |-> {D.polls[poll_id]}, im |-> <<>>,
     existing |-> {}, insert_rejected |-> FALSE, commit_ok |-> TRUE,
     outcome |-> NoOutcome]

\* The same call, made while the storage refuses to commit:
\* db.session.commit() raises.
StartReqCommitFails(poll_id, option_id, session_id, D) ==
    [StartReq(poll_id, option_id, session_id, D) EXCEPT !.commit_ok = FALSE]

LoadedPoll(rq) == CHOOSE p \in rq.poll : TRUE

VoterHash(rq) == hash_voter_token(generate_voter_token(rq.session_id, rq.poll_id))

Finish(rq, D, outcome) ==
    [rq |-> [rq EXCEPT !.pc = "done", !.outcome = outcome], db |-> D]

Fail(rq, D, message) ==
    Finish(rq, D, Outcome("vote", rq.poll_id, rq.option_id, rq.session_id,
                          FALSE, message, NoData))

Success(rq, D, message) ==
    Finish(rq, D, Outcome("vote", rq.poll_id, rq.option_id, rq.session_id, TRUE,
                          message, VoteData(D.options, D.polls, rq.poll_id, rq.option_id)))

\* Variant: the poll is not tested for being active.
vote_check_inactive_too(rq, D, t) ==
    IF \/ rq.option_id \notin DOMAIN D.options
       \/ D.options[rq.option_id].poll_id # rq.poll_id
    THEN Fail(rq, D, "Invalid option")
    ELSE [rq |-> [rq EXCEPT !.pc = "loaded_option",
                            !.im = (rq.option_id :> D.options[rq.option_id])],
          db |-> D]

\* Variant: the option is looked up by its id alone, whatever poll it is of.
vote_check_any_poll(rq, D, t) ==
    IF ~is_active(LoadedPoll(rq), t)
    THEN Fail(rq, D, "Poll is no longer active")
    ELSE IF rq.option_id \notin DOMAIN D.options
         THEN Fail(rq, D, "Invalid option")
         ELSE [rq |-> [rq EXCEPT !.pc = "loaded_option",
                                 !.im = (rq.option_id :> D.options[rq.option_id])],
               db |-> D]

\* if not poll.is_active ... ; option = PollOption.query.filter_by(...).first()
vote_check(rq, D, t) ==
    IF ~is_active(LoadedPoll(rq), t)
    THEN Fail(rq, D, "Poll is no longer active")
    ELSE IF \/ rq.option_id \notin DOMAIN D.options
            \/ D.options[rq.option_id].poll_id # rq.poll_id
         THEN Fail(rq, D, "Invalid option")
         ELSE [rq |-> [rq EXCEPT !.pc = "loaded_option",
                                 !.im = (rq.option_id :> D.options[rq.option_id])],
               db |-> D]

\* Variant: the lookup of the existing vote finds nothing.
vote_lookup_blind(rq, D) == [rq |-> [rq EXCEPT !.pc = "new"], db |-> D]

\* Variant: an existing vote is changed whatever allow_vote_change says.
vote_lookup_always_change(rq, D) ==
    LET found == VotesOf(D.votes, rq.poll_id, VoterHash(rq)) IN
    IF found # {}
    THEN [rq |-> [rq EXCEPT !.pc = "change",
                            !.existing = {CHOOSE v \in found : TRUE}],
          db |-> D]
    ELSE [rq |-> [rq EXCEPT !.pc = "new"], db |-> D]

\* existing_vote = Vote.query.filter_by(...).first() and the branch on it
vote_lookup(rq, D) ==
    LET found == VotesOf(D.votes, rq.poll_id, VoterHash(rq)) IN
    IF found # {}
    THEN IF LoadedPoll(rq).allow_vote_change
         THEN [rq |-> [rq EXCEPT !.pc = "change",
                                 !.existing = {CHOOSE v \in found : TRUE}],
               db |-> D]
         ELSE Fail(rq, D, "You have already voted")
    ELSE [rq |-> [rq EXCEPT !.pc = "new"], db |-> D]

ExistingVote(rq) == CHOOSE v \in rq.existing : TRUE

\* old_option = PollOption.query.get(existing_vote.option_id): the row the
\* session already holds, else the committed row, else None.
vote_get_old_option(rq, D) ==
    LET old_id == ExistingVote(rq).option_id IN
    [rq |-> [rq EXCEPT !.pc = "change_flush",
                       !.im = IF old_id \notin DOMAIN rq.im /\ old_id \in DOMAIN D.options
                              THEN rq.im @@ (old_id :> D.options[old_id])
                              ELSE rq.im],
     db |-> D]

\* Variant: the changed counters are never written.
FlushOptions_none(opts, loaded, changed) == opts

\* UPDATE of every loaded option row whose vote_count was changed.
FlushOptions(opts, loaded, changed) ==
    [o \in DOMAIN opts |->
        IF o \in DOMAIN changed /\ changed[o].vote_count # loaded[o].vote_count
        THEN [opts[o] EXCEPT !.vote_count = changed[o].vote_count]
        ELSE opts[o]]

\* Variant: a vote change inserts a row instead of reassigning the old one.
ReassignVote_insert(vs, poll_id, voter_hash, option_id) ==
    vs (+) SetToBag({VoteRow(poll_id, voter_hash, option_id)})

\* UPDATE votes SET option_id: the voter's row now references option_id.
ReassignVote(vs, poll_id, voter_hash, option_id) ==
    LET found == VotesOf(vs, poll_id, voter_hash) IN
    IF found = {} THEN vs
    ELSE LET row == CHOOSE v \in found : TRUE IN
         (vs (-) SetToBag({row})) (+) SetToBag({VoteRow(poll_id, voter_hash, option_id)})

\* Variant: the old option keeps its count on a vote change.
DecrementOld_noop(im, old_id) == im

\* old_option.vote_count = max(0, old_option.vote_count - 1)
DecrementOld(im, old_id) ==
    IF old_id \in DOMAIN im
    THEN [im EXCEPT ![old_id].vote_count = Max0(im[old_id].vote_count - 1)]
    ELSE im

\* Variant: a failed commit leaves the Vote statement of the flush behind
\* and drops the counter updates.
Rollback_partial(D, D2) == DB(D.polls, D.options, D2.votes)

\* The transaction of a failed flush or commit is rolled back
\* (db.session.rollback() on the new-vote path, the session's own rollback
\* of the failed transaction on the vote-change path): the committed state
\* is D, nothing of the flushed state D2 stays.
Rollback(D, D2) == D

\* The vote-change branch up to its commit; an exception of the commit
\* leaves the call.  The flush writes the attributes whose value differs
\* from the loaded one: a Vote whose option_id is assigned the value it was
\* loaded with is not written.
vote_change(rq, D) ==
    LET old_id == ExistingVote(rq).option_id
        im1 == DecrementOld(rq.im, old_id)
        im2 == [im1 EXCEPT ![rq.option_id].vote_count = @ + 1]
        D2 == DB(D.polls,
                 FlushOptions(D.options, rq.im, im2),
                 IF rq.option_id = old_id THEN D.votes
                 ELSE ReassignVote(D.votes, rq.poll_id, VoterHash(rq), rq.option_id))
    IN IF ~rq.commit_ok
       THEN Finish(rq, Rollback(D, D2),
                   Raised("vote", rq.poll_id, rq.option_id, rq.session_id,
                          "OperationalError"))
       ELSE Success([rq EXCEPT !.im = im2], D2, "Vote changed successfully")

\* Variant: the Vote row is committed on its own, the counters are not
\* written with it.
vote_new_row_only(rq, D) ==
    LET row == VoteRow(rq.poll_id, VoterHash(rq), rq.option_id)
        D2 == DB(D.polls, D.options, D.votes (+) SetToBag({row}))
    IN IF ViolatesUniqueVotePerPoll(D.votes, row)
       THEN Finish([rq EXCEPT !.insert_rejected = TRUE], D,
                   Raised("vote", rq.poll_id, rq.option_id, rq.session_id,
                          "IntegrityError"))
       ELSE Success(rq, D2, "Vote recorded")

\* The new-vote branch: counters, INSERT, commit; on an exception of the
\* commit, rollback and re-raise.
vote_new(rq, D) ==
    LET row == VoteRow(rq.poll_id, VoterHash(rq), rq.option_id)
        im2 == [rq.im EXCEPT ![rq.option_id].vote_count = @ + 1]
        D2 == DB([D.polls EXCEPT ![rq.poll_id].total_votes = LoadedPoll(rq).total_votes + 1],
                 FlushOptions(D.options, rq.im, im2),
                 D.votes (+) SetToBag({row}))
    IN IF ViolatesUniqueVotePerPoll(D.votes, row)
       THEN Finish([rq EXCEPT !.insert_rejected = TRUE], D,
                   Raised("vote", rq.poll_id, rq.option_id, rq.session_id,
                          "IntegrityError"))
       ELSE IF ~rq.commit_ok
            THEN Finish(rq, Rollback(D, D2),
                        Raised("vote", rq.poll_id, rq.option_id, rq.session_id,
                               "OperationalError"))
            ELSE Success([rq EXCEPT !.im = im2], D2, "Vote recorded")

VoteStep(rq, D, t) ==
    CASE rq.pc = "loaded_poll" -> vote_check(rq, D, t)
      [] rq.pc = "loaded_option" -> vote_lookup(rq, D)
      [] rq.pc = "change" -> vote_get_old_option(rq, D)
      [] rq.pc = "change_flush" -> vote_change(rq, D)
      [] rq.pc = "new" -> vote_new(rq, D)

\* History: the (poll, session) pairs for which a call of vote has succeeded
\* since the poll was created.
Voted(vd, rq) ==
    IF rq.pc = "done" /\ rq.outcome.ok THEN vd \cup {<<rq.poll_id, rq.session_id>>} ELSE vd

RECURSIVE RunVote(_, _, _)
RunVote(rq, D, t) ==
    IF rq.pc = "done" THEN [rq |-> rq, db |-> D]
    ELSE LET n == VoteStep(rq, D, t) IN RunVote(n.rq, n.db, t)

\* PollService.vote(poll, option_id, session_id) run without interruption
\* on the poll just fetched by get_poll.
vote(poll_id, option_id, session_id) ==
    /\ last = NoOutcome
    /\ poll_id \in DOMAIN polls
    /\ LET D == DB(polls, options, votes)
           r == RunVote(StartReq(poll_id, option_id, session_id, D), D, now)
       IN /\ polls' = r.db.polls
          /\ options' = r.db.options
          /\ votes' = r.db.votes
          /\ last' = r.rq.outcome
          /\ voted' = Voted(voted, r.rq)
    /\ UNCHANGED <<memory, now, req, base>>

\* PollService.vote(poll, option_id, session_id) run without interruption
\* while the storage refuses to commit.
vote_commit_fails(poll_id, option_id, session_id) ==
    /\ last = NoOutcome
    /\ poll_id \in DOMAIN polls
    /\ LET D == DB(polls, options, votes)
           r == RunVote(StartReqCommitFails(poll_id, option_id, session_id, D), D, now)
       IN /\ polls' = r.db.polls
          /\ options' = r.db.options
          /\ votes' = r.db.votes
          /\ last' = r.rq.outcome
          /\ voted' = Voted(voted, r.rq)
    /\ UNCHANGED <<memory, now, req, base>>

(***************************************************************************)
(* PollService.edit_poll                                                   *)
(***************************************************************************)
EditedExpiresAt(poll, expiration, t) ==
    IF expiration = "current" THEN poll.expires_at
    ELSE CASE expiration = "never" -> {}
           [] expiration = "1h" -> {t + HOURS_1H}
           [] expiration = "24h" -> {t + HOURS_24H}
           [] expiration = "7d" -> {t + HOURS_7D}
           [] expiration = "30d" -> {t + HOURS_30D}
           [] OTHER -> poll.expires_at

edit_poll(poll_id, question, allow_vote_change, is_public, expiration) ==
    /\ last = NoOutcome
    /\ poll_id \in DOMAIN polls
    /\ polls' = [polls EXCEPT ![poll_id].question = sanitize_text(question),
                              ![poll_id].allow_vote_change = allow_vote_change,
                              ![poll_id].is_public = is_public,
                              ![poll_id].expires_at =
                                  EditedExpiresAt(polls[poll_id], expiration, now)]
    /\ last' = Outcome("edit_poll", poll_id, 0, "", TRUE,
                       "Poll settings updated successfully.", NoData)
    /\ UNCHANGED <<memory, now, options, votes, req, base, voted>>

(***************************************************************************)
(* PollService.add_option                                                  *)
(***************************************************************************)
MaxDisplayOrder(opts, S) ==
    IF S = {} THEN 0
    ELSE LET m == CHOOSE o \in S : \A q \in S : opts[q].display_order <= opts[o].display_order
         IN opts[m].display_order

\* Variant: the count is compared with > instead of >=.
add_option_message_above_max(opts, poll_id, text) ==
    IF text = <<>> \/ Len(text) > MAX_OPTION_LENGTH THEN "Invalid option text"
    ELSE IF Cardinality(PollOptions(opts, poll_id)) > MAX_POLL_OPTIONS
         THEN "Maximum 10 options allowed"
         ELSE IF \E o \in PollOptions(opts, poll_id) :
                    lower(opts[o].option_text) = lower(text)
              THEN "Option already exists"
              ELSE ""

add_option_message(opts, poll_id, text) ==
    IF text = <<>> \/ Len(text) > MAX_OPTION_LENGTH THEN "Invalid option text"
    ELSE IF Cardinality(PollOptions(opts, poll_id)) >= MAX_POLL_OPTIONS
         THEN "Maximum 10 options allowed"
         ELSE IF \E o \in PollOptions(opts, poll_id) :
                    lower(opts[o].option_text) = lower(text)
              THEN "Option already exists"
              ELSE ""

add_option_within(poll_id, raw_text, max_option_id) ==
    /\ last = NoOutcome
    /\ poll_id \in DOMAIN polls
    /\ LET text == sanitize_text(raw_text)
           message == add_option_message(options, poll_id, text)
           id == NextOptionId(options)
       IN IF message # ""
          THEN /\ UNCHANGED db
               /\ last' = Outcome("add_option", poll_id, 0, "", FALSE, message, NoData)
          ELSE /\ id <= max_option_id
               /\ options' = options @@
                     (id :> [poll_id |-> poll_id,
                             option_text |-> text,
                             vote_count |-> 0,
                             display_order |->
                                 MaxDisplayOrder(options, PollOptions(options, poll_id)) + 1])
               /\ UNCHANGED <<polls, votes>>
               /\ last' = Outcome("add_option", poll_id, id, "", TRUE, "", NoData)
    /\ UNCHANGED <<memory, now, req, base, voted>>

\* The same with the option ids of the model bounded by MaxOptionId.
add_option(poll_id, raw_text) == add_option_within(poll_id, raw_text, MaxOptionId)

(***************************************************************************)
(* delete_poll_option (polls/routes.py)                                    *)
(***************************************************************************)
Restrict(f, S) == [x \in S |-> f[x]]

\* The variant without the test of the number of options.
delete_poll_option_any_count(poll_id, option_id, current_user_id) ==
    /\ last = NoOutcome
    /\ poll_id \in DOMAIN polls
    /\ IF \/ polls[poll_id].user_id # current_user_id
          \/ option_id \notin DOMAIN options
          \/ options[option_id].poll_id # poll_id
       THEN /\ UNCHANGED db
            /\ last' = Outcome("delete_poll_option", poll_id, option_id, "", FALSE,
                               "Unauthorized or Not Found", NoData)
       ELSE /\ polls' = [polls EXCEPT ![poll_id].total_votes =
                            Max0(@ - options[option_id].vote_count)]
            /\ votes' = BagRestrict(votes, {v \in DOMAIN votes : v.option_id # option_id})
            /\ options' = Restrict(options, DOMAIN options \ {option_id})
            /\ last' = Outcome("delete_poll_option", poll_id, option_id, "", TRUE,
                               "", NoData)
    /\ UNCHANGED <<memory, now, req, base, voted>>

\* Variant: the Vote rows of the deleted option are left behind.
delete_poll_option_keep_votes(poll_id, option_id, current_user_id) ==
    /\ last = NoOutcome
    /\ poll_id \in DOMAIN polls
    /\ IF \/ polls[poll_id].user_id # current_user_id
          \/ option_id \notin DOMAIN options
          \/ options[option_id].poll_id # poll_id
       THEN /\ UNCHANGED db
            /\ last' = Outcome("delete_poll_option", poll_id, option_id, "", FALSE,
                               "Unauthorized or Not Found", NoData)
       ELSE IF Cardinality(PollOptions(options, poll_id)) <= MIN_POLL_OPTIONS
            THEN /\ UNCHANGED db
                 /\ last' = Outcome("delete_poll_option", poll_id, option_id, "", FALSE,
                                    "Poll must have at least 2 options", NoData)
            ELSE /\ polls' = [polls EXCEPT ![poll_id].total_votes =
                                 Max0(@ - options[option_id].vote_count)]
                 /\ votes' = votes
                 /\ options' = Restrict(options, DOMAIN options \ {option_id})
                 /\ last' = Outcome("delete_poll_option", poll_id, option_id, "", TRUE,
                                    "", NoData)
    /\ UNCHANGED <<memory, now, req, base, voted>>

delete_poll_option(poll_id, option_id, current_user_id) ==
    /\ last = NoOutcome
    /\ poll_id \in DOMAIN polls
    /\ IF \/ polls[poll_id].user_id # current_user_id
          \/ option_id \notin DOMAIN options
          \/ options[option_id].poll_id # poll_id
       THEN /\ UNCHANGED db
            /\ last' = Outcome("delete_poll_option", poll_id, option_id, "", FALSE,
                               "Unauthorized or Not Found", NoData)
       ELSE IF Cardinality(PollOptions(options, poll_id)) <= MIN_POLL_OPTIONS
            THEN /\ UNCHANGED db
                 /\ last' = Outcome("delete_poll_option", poll_id, option_id, "", FALSE,
                                    "Poll must have at least 2 options", NoData)
            ELSE /\ polls' = [polls EXCEPT ![poll_id].total_votes =
                                 Max0(@ - options[option_id].vote_count)]
                 /\ votes' = BagRestrict(votes, {v \in DOMAIN votes : v.option_id # option_id})
                 /\ options' = Restrict(options, DOMAIN options \ {option_id})
                 /\ last' = Outcome("delete_poll_option", poll_id, option_id, "", TRUE,
                                    "", NoData)
    /\ UNCHANGED <<memory, now, req, base, voted>>

(***************************************************************************)
(* PollService.close_poll, reopen_poll, delete_poll                        *)
(***************************************************************************)
\* The variant that flips is_closed.
close_poll_toggle(poll_id) ==
    /\ last = NoOutcome
    /\ poll_id \in DOMAIN polls
    /\ polls' = [polls EXCEPT ![poll_id].is_closed = ~@]
    /\ last' = Outcome("close_poll", poll_id, 0, "", TRUE, "", NoData)
    /\ UNCHANGED <<memory, now, options, votes, req, base, voted>>

close_poll(poll_id) ==
    /\ last = NoOutcome
    /\ poll_id \in DOMAIN polls
    /\ polls' = [polls EXCEPT ![poll_id].is_closed = TRUE]
    /\ last' = Outcome("close_poll", poll_id, 0, "", TRUE, "", NoData)
    /\ UNCHANGED <<memory, now, options, votes, req, base, voted>>

reopen_poll(poll_id) ==
    /\ last = NoOutcome
    /\ poll_id \in DOMAIN polls
    /\ polls' = [polls EXCEPT ![poll_id].is_closed = FALSE]
    /\ last' = Outcome("reopen_poll", poll_id, 0, "", TRUE, "", NoData)
    /\ UNCHANGED <<memory, now, options, votes, req, base, voted>>

\* Variant: the Vote rows of the deleted poll are left behind.
delete_poll_keep_votes(poll_id) ==
    /\ last = NoOutcome
    /\ poll_id \in DOMAIN polls
    /\ polls' = Restrict(polls, DOMAIN polls \ {poll_id})
    /\ options' = Restrict(options, {o \in DOMAIN options : options[o].poll_id # poll_id})
    /\ votes' = votes
    /\ last' = Outcome("delete_poll", poll_id, 0, "", TRUE, "", NoData)
    /\ voted' = {h \in voted : h[1] # poll_id}
    /\ UNCHANGED <<memory, now, req, base>>

\* db.session.delete(poll) with cascade='all, delete-orphan' on options
\* and votes.
delete_poll(poll_id) ==
    /\ last = NoOutcome
    /\ poll_id \in DOMAIN polls
    /\ polls' = Restrict(polls, DOMAIN polls \ {poll_id})
    /\ options' = Restrict(options, {o \in DOMAIN options : options[o].poll_id # poll_id})
    /\ votes' = BagRestrict(votes, {v \in DOMAIN votes : v.poll_id # poll_id})
    /\ last' = Outcome("delete_poll", poll_id, 0, "", TRUE, "", NoData)
    /\ voted' = {h \in voted : h[1] # poll_id}
    /\ UNCHANGED <<memory, now, req, base>>

\* PollService.toggle_public
toggle_public(poll_id) ==
    /\ last = NoOutcome
    /\ poll_id \in DOMAIN polls
    /\ polls' = [polls EXCEPT ![poll_id].is_public = ~@]
    /\ last' = Outcome("toggle_public", poll_id, 0, "", TRUE, "", NoData)
    /\ UNCHANGED <<memory, now, options, votes, req, base, voted>>

(***************************************************************************)
(* polls/routes.py: the routes of the poll's creator.  The requester is    *)
(* what the request carries: stored_token, the value of                    *)
(* session['creator_tokens'].get(poll.id) ({} when there is none), and     *)
(* current_user_id, the id of the logged-in user (Anonymous when nobody is *)
(* logged in).                                                             *)
(***************************************************************************)
Anonymous == 0

\* Variant: any non-empty stored token proves creator rights.
is_poll_creator_any_token(stored_token, poll) ==
    \E t \in stored_token : t # ""

\* utils.is_poll_creator
is_poll_creator(stored_token, poll) ==
    \E t \in stored_token : t # "" /\ hash_creator_token(t) = poll.creator_token_hash

\* current_user.is_authenticated and poll.user_id == current_user.id
IsOwner(poll, current_user_id) ==
    current_user_id # Anonymous /\ poll.user_id = current_user_id

\* The test of close_poll, reopen_poll and delete_poll.
IsCreatorOrOwner(poll, stored_token, current_user_id) ==
    is_poll_creator(stored_token, poll) \/ IsOwner(poll, current_user_id)

\* The request is turned away: 403, or the redirect of @login_required.
Refuse(op, poll_id, message) ==
    /\ last = NoOutcome
    /\ last' = Outcome(op, poll_id, 0, "", FALSE, message, NoData)
    /\ UNCHANGED <<memory, now, polls, options, votes, req, base, voted>>

close_poll_route(poll_id, stored_token, current_user_id) ==
    /\ poll_id \in DOMAIN polls
    /\ IF ~IsCreatorOrOwner(polls[poll_id], stored_token, current_user_id)
       THEN Refuse("close_poll", poll_id, "Unauthorized")
       ELSE close_poll(poll_id)

\* The reopen route without the clearing of a past expiration.
reopen_poll_route_keep(poll_id, stored_token, current_user_id) ==
    /\ poll_id \in DOMAIN polls
    /\ IF ~IsCreatorOrOwner(polls[poll_id], stored_token, current_user_id)
       THEN Refuse("reopen_poll", poll_id, "Unauthorized")
       ELSE /\ last = NoOutcome
            /\ polls' = [polls EXCEPT ![poll_id].is_closed = FALSE]
            /\ last' = Outcome("reopen_poll_route", poll_id, 0, "", TRUE,
                               "Poll reopened", NoData)
            /\ UNCHANGED <<memory, now, options, votes, req, base, voted>>

\* An expired poll has its expiration cleared before PollService.reopen_poll.
reopen_poll_route(poll_id, stored_token, current_user_id) ==
    /\ poll_id \in DOMAIN polls
    /\ IF ~IsCreatorOrOwner(polls[poll_id], stored_token, current_user_id)
       THEN Refuse("reopen_poll", poll_id, "Unauthorized")
       ELSE /\ last = NoOutcome
            /\ polls' = [polls EXCEPT
                            ![poll_id].expires_at =
                                IF is_expired(polls[poll_id], now) THEN {} ELSE @,
                            ![poll_id].is_closed = FALSE]
            /\ last' = Outcome("reopen_poll_route", poll_id, 0, "", TRUE,
                               "Poll reopened", NoData)
            /\ UNCHANGED <<memory, now, options, votes, req, base, voted>>

delete_poll_route(poll_id, stored_token, current_user_id) ==
    /\ poll_id \in DOMAIN polls
    /\ IF ~IsCreatorOrOwner(polls[poll_id], stored_token, current_user_id)
       THEN Refuse("delete_poll", poll_id, "Unauthorized")
       ELSE delete_poll(poll_id)

toggle_public_route(poll_id, current_user_id) ==
    /\ poll_id \in DOMAIN polls
    /\ IF current_user_id = Anonymous
       THEN Refuse("toggle_public", poll_id, "login required")
       ELSE IF polls[poll_id].user_id # current_user_id
            THEN Refuse("toggle_public", poll_id, "Unauthorized")
            ELSE toggle_public(poll_id)

edit_poll_route(poll_id, current_user_id, question, allow_vote_change, is_public, expiration) ==
    /\ poll_id \in DOMAIN polls
    /\ IF current_user_id = Anonymous
       THEN Refuse("edit_poll", poll_id, "login required")
       ELSE IF polls[poll_id].user_id # current_user_id
            THEN Refuse("edit_poll", poll_id, "Forbidden")
            ELSE edit_poll(poll_id, question, allow_vote_change, is_public, expiration)

add_poll_option(poll_id, current_user_id, raw_text) ==
    /\ poll_id \in DOMAIN polls
    /\ IF current_user_id = Anonymous
       THEN Refuse("add_option", poll_id, "login required")
       ELSE IF polls[poll_id].user_id # current_user_id
            THEN Refuse("add_option", poll_id, "Unauthorized")
            ELSE IF sanitize_text(raw_text) = <<>>
                 THEN Refuse("add_option", poll_id, "Option text required")
                 ELSE add_option(poll_id, sanitize_text(raw_text))

\* delete_poll_option behind @login_required.
delete_poll_option_route(poll_id, option_id, current_user_id) ==
    /\ poll_id \in DOMAIN polls
    /\ IF current_user_id = Anonymous
       THEN Refuse("delete_poll_option", poll_id, "login required")
       ELSE delete_poll_option(poll_id, option_id, current_user_id)

Tick ==
    /\ last = NoOutcome
    /\ now < MaxTime
    /\ now' = now + 1
    /\ UNCHANGED <<memory, polls, options, votes, last, req, base, voted>>

\* The caller takes the result of the call (the route answers its client);
\* last is the result of the call that has not been taken yet, and the
\* uninterrupted operations are called one after the other.
Return ==
    /\ last # NoOutcome
    /\ last' = NoOutcome
    /\ UNCHANGED <<memory, now, polls, options, votes, req, base, voted>>

Next ==
    \/ \E p \in PollIds, ol \in OptionLists, e \in ExpirationChoices \ {"current"},
          a \in BOOLEAN, u \in OwnerIds, ct \in generate_creator_token(polls) :
          create_poll(p, ct, FormQuestion, ol, e, a, u)
    \/ \E p \in PollIds, o \in OptionIdInputs, s \in SessionIds : vote(p, o, s)
    \/ \E p \in PollIds, a \in BOOLEAN, e \in ExpirationChoices : edit_poll(p, FormQuestion, a, TRUE, e)
    \/ \E p \in PollIds, u \in UserIds : reopen_poll_route(p, {}, u)
    \/ \E p \in PollIds, t \in AddTexts : add_option(p, t)
    \/ \E p \in PollIds, o \in OptionIdInputs, u \in UserIds : delete_poll_option(p, o, u)
    \/ \E p \in PollIds : close_poll(p)
    \/ \E p \in PollIds : reopen_poll(p)
    \/ \E p \in PollIds : delete_poll(p)
    \/ Tick
    \/ Return

Spec == Init /\ [][Next]_vars

(***************************************************************************)
(* Overlapping vote requests.  Polls and earlier votes are set up by       *)
(* uninterrupted operations while no request is in flight; then each       *)
(* request slot serves one call of PollService.vote, one step at a time.   *)
(* base keeps the committed state at the moment the first request began.   *)
(***************************************************************************)
setup_create_poll(poll_id, option_texts, allow_vote_change, user_id) ==
    /\ AllIdle
    /\ \E ct \in generate_creator_token(polls) :
          create_poll(poll_id, ct, FormQuestion, option_texts, "never", allow_vote_change, user_id)

setup_vote(poll_id, option_id, session_id) ==
    /\ AllIdle
    /\ vote(poll_id, option_id, session_id)

setup_add_option(poll_id, raw_text) ==
    /\ AllIdle
    /\ add_option(poll_id, raw_text)

setup_delete_poll_option(poll_id, option_id, current_user_id) ==
    /\ AllIdle
    /\ delete_poll_option(poll_id, option_id, current_user_id)

\* The route's get_poll and its call of PollService.vote.  Slots are taken
\* in order (they are interchangeable).
req_start(r, poll_id, option_id, session_id) ==
    /\ req[r].pc = "idle"
    /\ \A q \in ReqIds : q < r => req[q].pc # "idle"
    /\ poll_id \in DOMAIN polls
    /\ last = NoOutcome
    /\ req' = [req EXCEPT ![r] = StartReq(poll_id, option_id, session_id,
                                          DB(polls, options, votes))]
    /\ base' = IF AllIdle THEN DB(polls, options, votes) ELSE base
    /\ UNCHANGED <<memory, now, polls, options, votes, last, voted>>

req_step(r) ==
    /\ req[r].pc \notin {"idle", "done"}
    /\ LET n == VoteStep(req[r], DB(polls, options, votes), now) IN
       /\ req' = [req EXCEPT ![r] = n.rq]
       /\ polls' = n.db.polls
       /\ options' = n.db.options
       /\ votes' = n.db.votes
       /\ voted' = Voted(voted, n.rq)
    /\ UNCHANGED <<memory, now, last, base>>

NextConc ==
    \/ \E p \in PollIds, ol \in OptionLists, a \in BOOLEAN, u \in OwnerIds :
          setup_create_poll(p, ol, a, u)
    \/ \E p \in PollIds, o \in OptionIdInputs, s \in SessionIds : setup_vote(p, o, s)
    \/ \E r \in ReqIds, p \in PollIds, o \in OptionIdInputs, s \in SessionIds :
          req_start(r, p, o, s)
    \/ \E r \in ReqIds : req_step(r)
    \/ Return

SpecConc == Init /\ [][NextConc]_vars

\* The same, on polls that allow vote changes and whose options were added
\* to and deleted from before the requests began.
NextConcOptions ==
    \/ \E p \in PollIds, ol \in OptionLists, u \in OwnerIds :
          setup_create_poll(p, ol, TRUE, u)
    \/ \E p \in PollIds, o \in OptionIdInputs, s \in SessionIds : setup_vote(p, o, s)
    \/ \E p \in PollIds, t \in AddTexts : setup_add_option(p, t)
    \/ \E p \in PollIds, o \in OptionIdInputs, u \in OwnerIds :
          setup_delete_poll_option(p, o, u)
    \/ \E r \in ReqIds, p \in PollIds, o \in OptionIdInputs, s \in SessionIds :
          req_start(r, p, o, s)
    \/ \E r \in ReqIds : req_step(r)
    \/ Return

SpecConcOptions == Init /\ [][NextConcOptions]_vars

(***************************************************************************)
(* Two polls side by side: polls are created, voted on and closed by       *)
(* uninterrupted calls.                                                    *)
(***************************************************************************)
NextPolls ==
    \/ \E p \in TwoPollIds, ol \in OptionLists, a \in BOOLEAN, u \in OwnerIds,
          ct \in generate_creator_token(polls) :
          create_poll(p, ct, FormQuestion, ol, "never", a, u)
    \/ \E p \in TwoPollIds, o \in TwoPollOptionIdInputs, s \in SessionIds : vote(p, o, s)
    \/ \E p \in TwoPollIds : close_poll(p)
    \/ Return

SpecPolls == Init /\ [][NextPolls]_vars

(***************************************************************************)
(* The creator's routes on two polls side by side: the requester presents  *)
(* no token, an empty one or one of the tokens handed out, logged in or    *)
(* not.                                                                    *)
(***************************************************************************)
\* What session['creator_tokens'].get(poll.id) can give.
StoredTokens == {{}} \cup {{t} : t \in CreatorTokens \cup {""}}

\* Who current_user can be.
Requesters == {Anonymous} \cup UserIds

NextCreators ==
    \/ \E p \in TwoPollIds, ol \in OptionLists, a \in BOOLEAN, u \in OwnerIds,
          ct \in generate_creator_token(polls) :
          create_poll(p, ct, FormQuestion, ol, "never", a, u)
    \/ \E p \in TwoPollIds, st \in StoredTokens, u \in Requesters :
          close_poll_route(p, st, u)
    \/ \E p \in TwoPollIds, st \in StoredTokens, u \in Requesters :
          reopen_poll_route(p, st, u)
    \/ Return

SpecCreators == Init /\ [][NextCreators]_vars

(***************************************************************************)
(* All the creator's routes on one poll, called by requesters of every     *)
(* kind: with or without the poll's token in the session (it stays there   *)
(* after logout), anonymous or logged in as the owner or as someone else.  *)
(***************************************************************************)
NextRoutes ==
    \/ \E p \in PollIds, ol \in OptionLists, a \in BOOLEAN, u \in OwnerIds,
          ct \in generate_creator_token(polls) :
          create_poll(p, ct, FormQuestion, ol, "never", a, u)
    \/ \E p \in PollIds, o \in OptionIdInputs, s \in SessionIds : vote(p, o, s)
    \/ \E p \in PollIds, st \in StoredTokens, u \in Requesters :
          close_poll_route(p, st, u)
    \/ \E p \in PollIds, st \in StoredTokens, u \in Requesters :
          reopen_poll_route(p, st, u)
    \/ \E p \in PollIds, st \in StoredTokens, u \in Requesters :
          delete_poll_route(p, st, u)
    \/ \E p \in PollIds, u \in Requesters : toggle_public_route(p, u)
    \/ \E p \in PollIds, u \in Requesters, a \in BOOLEAN, pub \in BOOLEAN :
          edit_poll_route(p, u, FormQuestion, a, pub, "never")
    \/ \E p \in PollIds, u \in Requesters, t \in AddTexts : add_poll_option(p, u, t)
    \/ \E p \in PollIds, o \in OptionIdInputs, u \in Requesters :
          delete_poll_option_route(p, o, u)
    \/ Return

SpecRoutes == Init /\ [][NextRoutes]_vars

(***************************************************************************)
(* encryption.py.  A str is the sequence of its code points, bytes a       *)
(* sequence of numbers below 256.  A function that can raise returns the   *)
(* set of its results: one value, or none when it raises.                  *)
(***************************************************************************)
KEY_SIZE == 32
NONCE_SIZE == 12
TAG_SIZE == 16
BASE64_PAD == 61

\* sum of i * b[i], the weights starting at i: the sum of a sequence is the
\* sum of its halves
RECURSIVE WeightedSum(_, _)
WeightedSum(b, i) ==
    IF Len(b) = 0 THEN 0
    ELSE IF Len(b) = 1 THEN i * b[1]
    ELSE LET h == Len(b) \div 2
         IN WeightedSum(SubSeq(b, 1, h), i) + WeightedSum(SubSeq(b, h + 1, Len(b)), i + h)

RECURSIVE Xor(_, _)
Xor(a, b) ==
    IF a = 0 THEN b
    ELSE IF b = 0 THEN a
         ELSE (((a % 2) + (b % 2)) % 2) + 2 * Xor(a \div 2, b \div 2)

\* chr(cp).encode('utf-8')
utf8_char(cp) ==
    IF cp < 128 THEN <<cp>>
    ELSE IF cp < 2048 THEN <<192 + (cp \div 64), 128 + (cp % 64)>>
    ELSE IF cp < 65536
         THEN <<224 + (cp \div 4096), 128 + ((cp \div 64) % 64), 128 + (cp % 64)>>
         ELSE <<240 + (cp \div 262144), 128 + ((cp \div 4096) % 64),
                128 + ((cp \div 64) % 64), 128 + (cp % 64)>>

\* Variant: every character is written as one byte.
encode_utf8_one_byte(str) == [i \in 1..Len(str) |-> str[i] % 256]

\* str.encode('utf-8'): the encoding of a text is the encodings of its
\* halves, one after the other
RECURSIVE encode_utf8(_)
encode_utf8(str) ==
    IF Len(str) = 0 THEN <<>>
    ELSE IF Len(str) = 1 THEN utf8_char(str[1])
    ELSE LET h == Len(str) \div 2
         IN encode_utf8(SubSeq(str, 1, h)) \o encode_utf8(SubSeq(str, h + 1, Len(str)))

\* The length the lead byte announces; 0 for a byte that cannot lead.
Utf8Width(b1) ==
    IF b1 < 128 THEN 1
    ELSE IF b1 >= 192 /\ b1 < 224 THEN 2
    ELSE IF b1 >= 224 /\ b1 < 240 THEN 3
    ELSE IF b1 >= 240 /\ b1 < 248 THEN 4
    ELSE 0

Utf8CodePoint(b, w) ==
    CASE w = 1 -> b[1]
      [] w = 2 -> (b[1] - 192) * 64 + (b[2] - 128)
      [] w = 3 -> (b[1] - 224) * 4096 + (b[2] - 128) * 64 + (b[3] - 128)
      [] w = 4 -> (b[1] - 240) * 262144 + (b[2] - 128) * 4096
                     + (b[3] - 128) * 64 + (b[4] - 128)

\* bytes.decode('utf-8'): the str, or nothing (UnicodeDecodeError) on a byte
\* that cannot lead, a missing or a wrong continuation byte, or an encoding
\* longer than the code point needs.
RECURSIVE decode_utf8(_)
decode_utf8(b) ==
    IF b = <<>> THEN {<<>>}
    ELSE LET w == Utf8Width(b[1]) IN
         IF \/ w = 0
            \/ Len(b) < w
            \/ \E i \in 2..w : b[i] < 128 \/ b[i] >= 192
         THEN {}
         ELSE IF utf8_char(Utf8CodePoint(b, w)) # SubSeq(b, 1, w)
              THEN {}
              ELSE {<<Utf8CodePoint(b, w)>> \o r :
                       r \in decode_utf8(SubSeq(b, w + 1, Len(b)))}

\* The character of the URL-safe alphabet for a 6-bit value.
B64Char(v) ==
    IF v < 26 THEN 65 + v
    ELSE IF v < 52 THEN 97 + (v - 26)
    ELSE IF v < 62 THEN 48 + (v - 52)
    ELSE IF v = 62 THEN 45
    ELSE 95

\* The 6-bit value of a character, after urlsafe_b64decode has translated
\* '-' and '_' to '+' and '/' (which it accepts as well); 64 for any other
\* character.
B64Value(c) ==
    IF c >= 65 /\ c <= 90 THEN c - 65
    ELSE IF c >= 97 /\ c <= 122 THEN c - 97 + 26
    ELSE IF c >= 48 /\ c <= 57 THEN c - 48 + 52
    ELSE IF c = 45 \/ c = 43 THEN 62
    ELSE IF c = 95 \/ c = 47 THEN 63
    ELSE 64

\* base64.urlsafe_b64encode: character k belongs to the group of three
\* bytes number (k - 1) \div 4; a group that lacks bytes is padded.
urlsafe_b64encode(b) ==
    LET n == Len(b)
        byte(i) == IF i <= n THEN b[i] ELSE 0
    IN [k \in 1..(4 * ((n + 2) \div 3)) |->
          LET g == 3 * ((k - 1) \div 4)
              r == (k - 1) % 4
          IN IF r = 0 THEN B64Char(byte(g + 1) \div 4)
             ELSE IF r = 1
                  THEN B64Char((byte(g + 1) % 4) * 16 + (byte(g + 2) \div 16))
             ELSE IF r = 2
                  THEN (IF g + 2 > n THEN BASE64_PAD
                        ELSE B64Char((byte(g + 2) % 16) * 4 + (byte(g + 3) \div 64)))
             ELSE (IF g + 3 > n THEN BASE64_PAD ELSE B64Char(byte(g + 3) % 64))]

\* binascii.a2b_base64, not strict: characters outside the alphabet are
\* skipped; a padding character that completes the padding of a group of
\* two or three characters ends the input (quad_pos >= 2 and
\* quad_pos + pads >= 4, pads counting the padding characters since the
\* last character of the alphabet); an incomplete last group is an error
\* (no result).  The characters of the alphabet before the end give the
\* bytes, four characters for three bytes.
a2b_base64(s) ==
    LET n == Len(s)
        alpha == {j \in 1..n : B64Value(s[j]) < 64}
        padding == {j \in 1..n : s[j] = BASE64_PAD}
        quad_pos(i) == Cardinality({j \in alpha : j < i}) % 4
        pads(i) == Cardinality({j \in padding :
                                  j <= i /\ \A a \in alpha : a < i => a < j})
        ends == {i \in padding : quad_pos(i) >= 2 /\ quad_pos(i) + pads(i) >= 4}
        stop == IF ends = {} THEN n + 1 ELSE CHOOSE i \in ends : \A j \in ends : i <= j
        chars == SelectSeq(SubSeq(s, 1, stop - 1), LAMBDA c : B64Value(c) < 64)
        m == Len(chars)
        v(k) == B64Value(chars[k])
    IN IF ends = {} /\ m % 4 # 0 THEN {}
       ELSE {[k \in 1..(3 * (m \div 4) + (IF m % 4 = 0 THEN 0 ELSE (m % 4) - 1)) |->
                LET g == 4 * ((k - 1) \div 3)
                    r == (k - 1) % 3
                IN IF r = 0 THEN v(g + 1) * 4 + (v(g + 2) \div 16)
                   ELSE IF r = 1 THEN (v(g + 2) % 16) * 16 + (v(g + 3) \div 4)
                   ELSE (v(g + 3) % 4) * 64 + v(g + 4)]}

\* base64.urlsafe_b64decode
urlsafe_b64decode(s) == a2b_base64(s)

\* PBKDF2HMAC(SHA256, length=32, salt, iterations=100000).derive(secret_key):
\* KEY_SIZE bytes that secret key and salt determine.
derive_key(secret_key, salt) ==
    [i \in 1..KEY_SIZE |->
        (WeightedSum(secret_key, 1) * 31 + WeightedSum(salt, 1) * 17 + i * 7) % 256]

\* AES256Encryption(secret_key, salt)
AES256Encryption(secret_key, salt) ==
    [salt |-> salt, key |-> derive_key(secret_key, salt)]

\* AES in counter mode: byte i of the data is xor-ed with a keystream byte
\* that key, nonce and i determine.
KeyStream(key, nonce, i) ==
    (WeightedSum(key, 1) + WeightedSum(nonce, 1) * 3 + i * 11) % 256

AES_CTR(key, nonce, data) ==
    [i \in 1..Len(data) |-> Xor(data[i], KeyStream(key, nonce, i))]

\* The GCM tag is a polynomial hash of nonce and ciphertext at points the
\* key determines.  Here the polynomial is taken over the integers modulo
\* GCM_PRIME and evaluated at TAG_SIZE \div 2 points, two bytes of tag for
\* each; data of one length that differ in one byte or in two neighbouring
\* bytes differ in their tags.
GCM_PRIME == 32749

HashPoint(key, j) == 2 + ((WeightedSum(key, 1) + j) % 1000)

\* x to the power e, modulo GCM_PRIME
RECURSIVE PowMod(_, _)
PowMod(x, e) ==
    IF e = 0 THEN 1
    ELSE IF e % 2 = 1 THEN (x * PowMod(x, e - 1)) % GCM_PRIME
    ELSE LET r == PowMod(x, e \div 2) IN (r * r) % GCM_PRIME

\* The sum of data[i] * x^(Len(data) - i) for i in lo..hi, modulo GCM_PRIME
RECURSIVE PolyTerms(_, _, _, _)
PolyTerms(data, x, lo, hi) ==
    IF lo > hi THEN 0
    ELSE IF lo = hi THEN (data[lo] * PowMod(x, Len(data) - lo)) % GCM_PRIME
    ELSE LET mid == (lo + hi) \div 2
         IN (PolyTerms(data, x, lo, mid) + PolyTerms(data, x, mid + 1, hi)) % GCM_PRIME

\* The value at x of the polynomial with the coefficients h, data[1], ...,
\* data[n], modulo GCM_PRIME.
PolyHash(data, x, h) ==
    (h * PowMod(x, Len(data)) + PolyTerms(data, x, 1, Len(data))) % GCM_PRIME

\* The hashes hs written as bytes, high byte first.
TagBytes(hs) ==
    [i \in 1..(2 * Len(hs)) |->
        IF i % 2 = 1 THEN hs[(i + 1) \div 2] \div 256 ELSE hs[i \div 2] % 256]

GCMTag(key, nonce, ciphertext) ==
    TagBytes([j \in 1..(TAG_SIZE \div 2) |->
                 PolyHash(nonce \o ciphertext, HashPoint(key, j), Len(ciphertext) + 1)])

\* AESGCM.encrypt(nonce, data, None)
AESGCM_encrypt(key, nonce, data) ==
    AES_CTR(key, nonce, data) \o GCMTag(key, nonce, AES_CTR(key, nonce, data))

\* AESGCM.decrypt(nonce, data, None): nothing (InvalidTag) unless the tag is
\* the one of key, nonce and ciphertext.
AESGCM_decrypt(key, nonce, data) ==
    IF Len(data) < TAG_SIZE THEN {}
    ELSE LET ciphertext == SubSeq(data, 1, Len(data) - TAG_SIZE)
             tag == SubSeq(data, Len(data) - TAG_SIZE + 1, Len(data))
         IN IF tag # GCMTag(key, nonce, ciphertext) THEN {}
            ELSE {AES_CTR(key, nonce, ciphertext)}

\* AES256Encryption.encrypt, with the nonce os.urandom(NONCE_SIZE) gave.
encrypt(engine, plaintext, nonce) ==
    IF plaintext = <<>> THEN <<>>
    ELSE urlsafe_b64encode(nonce \o AESGCM_encrypt(engine.key, nonce,
                                                   encode_utf8(plaintext)))

\* AES256Encryption.decrypt: the plaintext, or nothing when it raises
\* ValueError.
decrypt(engine, encrypted) ==
    IF encrypted = <<>> THEN {<<>>}
    ELSE UNION { UNION { decode_utf8(plain) :
                           plain \in AESGCM_decrypt(
                                        engine.key,
                                        SubSeq(encrypted_data, 1,
                                               IF Len(encrypted_data) < NONCE_SIZE
                                               THEN Len(encrypted_data) ELSE NONCE_SIZE),
                                        SubSeq(encrypted_data, NONCE_SIZE + 1,
                                               Len(encrypted_data))) } :
                 encrypted_data \in urlsafe_b64decode(encode_utf8(encrypted)) }

(***************************************************************************)
(* Encryption round trips: a plaintext, the secret key and the salt of the *)
(* engine and the nonce of the operating system are drawn; the plaintext   *)
(* is encrypted, and the result decrypted by an engine of some secret key  *)
(* and salt.                                                               *)
(***************************************************************************)
MaxPlainLen == 2

\* 'A', e acute, the euro sign and an emoji: one to four bytes in UTF-8.
PlainChars == {65, 233, 8364, 128512}

RECURSIVE StrsUpTo(_)
StrsUpTo(n) ==
    IF n = 0 THEN {<<>>}
    ELSE StrsUpTo(n - 1) \cup
         {Append(t, c) : t \in {u \in StrsUpTo(n - 1) : Len(u) = n - 1}, c \in PlainChars}

Plaintexts == StrsUpTo(MaxPlainLen)

\* "k1", "k2"
SecretKeys == {<<107, 49>>, <<107, 50>>}
\* b"s1", b"s2"
Salts == {<<115, 49>>, <<115, 50>>}
Nonces == {[i \in 1..NONCE_SIZE |-> (i * 37) % 256],
           [i \in 1..NONCE_SIZE |-> 255 - i]}

InitCrypto ==
    /\ now = 0
    /\ polls = <<>>
    /\ options = <<>>
    /\ votes = EmptyBag
    /\ req = [r \in ReqIds |-> IdleReq]
    /\ base = EmptyDB
    /\ voted = {}
    /\ InitMemory
    /\ \E x \in Plaintexts, k \in SecretKeys, salt \in Salts, nonce \in Nonces :
          last = Outcome("encrypt_input", "", 0, "", TRUE, "",
                         {[plaintext |-> x, secret_key |-> k, salt |-> salt,
                           nonce |-> nonce]})

encrypt_call ==
    /\ last.op = "encrypt_input"
    /\ \E d \in last.data :
          last' = Outcome("encrypt", "", 0, "", TRUE, "",
                          {[plaintext |-> d.plaintext, secret_key |-> d.secret_key,
                            salt |-> d.salt,
                            encrypted |-> encrypt(AES256Encryption(d.secret_key, d.salt),
                                                  d.plaintext, d.nonce)]})
    /\ UNCHANGED <<memory, now, polls, options, votes, req, base, voted>>

decrypt_call(secret_key, salt) ==
    /\ last.op = "encrypt"
    /\ \E d \in last.data :
          LET result == decrypt(AES256Encryption(secret_key, salt), d.encrypted) IN
          last' = [Outcome("decrypt", "", 0, "", result # {},
                           IF result = {} THEN "ValueError" ELSE "",
                           {[plaintext |-> d.plaintext, encrypted |-> d.encrypted,
                             same_engine |-> (secret_key = d.secret_key /\ salt = d.salt),
                             decrypted |-> result]})
                   EXCEPT !.raised = (result = {})]
    /\ UNCHANGED <<memory, now, polls, options, votes, req, base, voted>>

NextCrypto ==
    \/ encrypt_call
    \/ \E k \in SecretKeys, salt \in Salts : decrypt_call(k, salt)

SpecCrypto == InitCrypto /\ [][NextCrypto]_vars

(***************************************************************************)
(* Tampering: one character of a blob that encrypt produced is replaced by *)
(* another one, and the result is decrypted by the engine that encrypted.  *)
(***************************************************************************)
\* What the character c of a blob can be replaced by: the characters whose
\* 6-bit value differs from the one of c in its lowest, a middle or its
\* highest bit, the padding sign, a character outside every alphabet, and
\* the two characters of the standard alphabet that the URL-safe one
\* replaces.
Replacements(c) ==
    <<B64Char(Xor(B64Value(c) % 64, 1)), B64Char(Xor(B64Value(c) % 64, 8)),
      B64Char(Xor(B64Value(c) % 64, 32)), BASE64_PAD, 33, 43, 47>>

InitTamper ==
    /\ now = 0
    /\ polls = <<>>
    /\ options = <<>>
    /\ votes = EmptyBag
    /\ req = [r \in ReqIds |-> IdleReq]
    /\ base = EmptyDB
    /\ voted = {}
    /\ InitMemory
    /\ \E x \in Plaintexts \ {<<>>}, nonce \in Nonces :
          last = Outcome("encrypt_input", "", 0, "", TRUE, "",
                         {[plaintext |-> x, secret_key |-> <<107, 49>>,
                           salt |-> <<115, 49>>, nonce |-> nonce]})

\* The character at position is replaced by the one of its replacements
\* that choice names, if that is another character.
tamper(position, choice) ==
    /\ last.op = "encrypt"
    /\ \E d \in last.data :
          /\ position \in 1..Len(d.encrypted)
          /\ Replacements(d.encrypted[position])[choice] # d.encrypted[position]
          /\ last' = Outcome("tamper", "", 0, "", TRUE, "",
                             {[plaintext |-> d.plaintext, secret_key |-> d.secret_key,
                               salt |-> d.salt, original |-> d.encrypted,
                               encrypted |->
                                  [d.encrypted EXCEPT ![position] =
                                      Replacements(d.encrypted[position])[choice]]]})
    /\ UNCHANGED <<memory, now, polls, options, votes, req, base, voted>>

decrypt_tampered ==
    /\ last.op = "tamper"
    /\ \E d \in last.data :
          LET result == decrypt(AES256Encryption(d.secret_key, d.salt), d.encrypted) IN
          last' = [Outcome("decrypt_tampered", "", 0, "", result # {},
                           IF result = {} THEN "ValueError" ELSE "",
                           {[plaintext |-> d.plaintext, original |-> d.original,
                             encrypted |-> d.encrypted, decrypted |-> result]})
                   EXCEPT !.raised = (result = {})]
    /\ UNCHANGED <<memory, now, polls, options, votes, req, base, voted>>

\* A blob has as many characters as MaxBlobLen at most.
MaxBlobLen == 4 * ((NONCE_SIZE + 4 * (MaxPlainLen + 1) + TAG_SIZE + 2) \div 3)

NextTamper ==
    \/ encrypt_call
    \/ \E i \in 1..MaxBlobLen, c \in 1..7 : tamper(i, c)
    \/ decrypt_tampered

SpecTamper == InitTamper /\ [][NextTamper]_vars

(***************************************************************************)
(* models.py: EncryptedMixin and the question of a Poll.  environ is the   *)
(* set holding the value of POLLIVU_SALT when the variable is set; an      *)
(* empty str or bytes also stands for None.                                *)
(***************************************************************************)
\* Variant: without a salt the engine takes a built-in one.
AES256Encryption_init_default_salt(secret_key, salt, environ) ==
    IF salt # <<>> THEN {AES256Encryption(secret_key, salt)}
    ELSE IF \E env_salt \in environ : env_salt # <<>>
         THEN {AES256Encryption(secret_key, encode_utf8(env_salt)) : env_salt \in environ}
         ELSE {AES256Encryption(secret_key, <<112>>)}

\* AES256Encryption.__init__: the engine, or nothing when it raises
\* ValueError for want of a salt.
AES256Encryption_init(secret_key, salt, environ) ==
    IF salt # <<>> THEN {AES256Encryption(secret_key, salt)}
    ELSE IF \E env_salt \in environ : env_salt # <<>>
         THEN {AES256Encryption(secret_key, encode_utf8(env_salt)) : env_salt \in environ}
         ELSE {}

\* EncryptedMixin.encrypt_field
encrypt_field(value, secret_key, environ, nonce) ==
    IF value = <<>> THEN {<<>>}
    ELSE {encrypt(engine, value, nonce) :
             engine \in AES256Encryption_init(secret_key, <<>>, environ)}

\* EncryptedMixin.decrypt_field: every exception of the engine is caught
\* and "" returned in its place.
decrypt_field(encrypted, secret_key, environ) ==
    IF encrypted = <<>> THEN {<<>>}
    ELSE LET result == UNION {decrypt(engine, encrypted) :
                                 engine \in AES256Encryption_init(secret_key, <<>>, environ)}
         IN IF result = {} THEN {<<>>} ELSE result

\* Poll.set_question: the poll's question columns, or nothing when
\* encrypt_field raises.
set_question(question, secret_key, encrypt_flag, environ, nonce) ==
    IF encrypt_flag /\ secret_key # <<>>
    THEN {[question |-> question, question_encrypted |-> blob, is_encrypted |-> TRUE] :
             blob \in encrypt_field(question, secret_key, environ, nonce)}
    ELSE {[question |-> question, question_encrypted |-> <<>>, is_encrypted |-> FALSE]}

\* Poll.get_question: self.question when decrypt_field raises.
get_question(poll, secret_key, environ) ==
    IF poll.is_encrypted /\ poll.question_encrypted # <<>> /\ secret_key # <<>>
    THEN LET result == decrypt_field(poll.question_encrypted, secret_key, environ)
         IN IF result = {} THEN poll.question ELSE CHOOSE x \in result : TRUE
    ELSE poll.question

(***************************************************************************)
(* The question of a poll is stored encrypted, the stored blob is left as  *)
(* it is or changed in one character, and the question is read with some   *)
(* secret key.                                                             *)
(***************************************************************************)
\* The process environment of these runs: POLLIVU_SALT = "s1".
QuestionEnviron == {<<115, 49>>}

InitQuestion ==
    /\ now = 0
    /\ polls = <<>>
    /\ options = <<>>
    /\ votes = EmptyBag
    /\ req = [r \in ReqIds |-> IdleReq]
    /\ base = EmptyDB
    /\ voted = {}
    /\ InitMemory
    /\ \E x \in Plaintexts \ {<<>>}, k \in SecretKeys :
          last = Outcome("question_input", "", 0, "", TRUE, "",
                         {[question |-> x, secret_key |-> k]})

set_question_call(nonce) ==
    /\ last.op = "question_input"
    /\ \E d \in last.data :
          \E poll \in set_question(d.question, d.secret_key, TRUE, QuestionEnviron, nonce) :
             last' = Outcome("set_question", "", 0, "", TRUE, "",
                             {[secret_key |-> d.secret_key, poll |-> poll]})
    /\ UNCHANGED <<memory, now, polls, options, votes, req, base, voted>>

\* The stored blob is changed at one position (its character's lowest bit).
tamper_question(position) ==
    /\ last.op = "set_question"
    /\ \E d \in last.data :
          /\ position \in 1..Len(d.poll.question_encrypted)
          /\ last' = Outcome("tamper_question", "", 0, "", TRUE, "",
                             {[secret_key |-> d.secret_key,
                               poll |-> [d.poll EXCEPT !.question_encrypted[position] =
                                            Replacements(@)[1]]]})
    /\ UNCHANGED <<memory, now, polls, options, votes, req, base, voted>>

get_question_call(secret_key) ==
    /\ last.op \in {"set_question", "tamper_question"}
    /\ \E d \in last.data :
          last' = Outcome("get_question", "", 0, "", TRUE, "",
                          {[poll |-> d.poll,
                            decrypted |->
                               UNION {decrypt(engine, d.poll.question_encrypted) :
                                         engine \in AES256Encryption_init(
                                                       secret_key, <<>>, QuestionEnviron)},
                            result |-> get_question(d.poll, secret_key, QuestionEnviron)]})
    /\ UNCHANGED <<memory, now, polls, options, votes, req, base, voted>>

NextQuestion ==
    \/ \E nonce \in {CHOOSE n \in Nonces : TRUE} : set_question_call(nonce)
    \/ \E i \in 1..MaxBlobLen : tamper_question(i)
    \/ \E k \in SecretKeys : get_question_call(k)

SpecQuestion == InitQuestion /\ [][NextQuestion]_vars

(***************************************************************************)
(* Startup and engine creation under every environment: SECRET_KEY and     *)
(* POLLIVU_SALT are each unset, set to the empty string or set to a value. *)
(***************************************************************************)
REQUIRED_VARS == {"SECRET_KEY", "POLLIVU_SALT"}

\* The values a variable of the environment can have: none (unset), the
\* empty string, or one of vals.
EnvValues(vals) == {{}, {<<>>}} \cup {{v} : v \in vals}

\* os.getenv(var) is falsy: the variable is unset or empty.
NotSet(environ, var) == \A v \in environ[var] : v = <<>>

\* validate_config: the variables found missing; the process exits when
\* there is one.
validate_config(environ) == {var \in REQUIRED_VARS : NotSet(environ, var)}

InitStartup ==
    /\ now = 0
    /\ polls = <<>>
    /\ options = <<>>
    /\ votes = EmptyBag
    /\ req = [r \in ReqIds |-> IdleReq]
    /\ base = EmptyDB
    /\ voted = {}
    /\ InitMemory
    /\ \E sk \in EnvValues(SecretKeys), ps \in EnvValues(Salts),
          k \in SecretKeys, salt \in {<<>>} \cup Salts :
          last = Outcome("environment", "", 0, "", TRUE, "",
                         {[environ |-> [SECRET_KEY |-> sk, POLLIVU_SALT |-> ps],
                           secret_key |-> k, salt |-> salt]})

\* app.py: validate_config() before the application is built.
startup ==
    /\ last.op = "environment"
    /\ \E d \in last.data :
          LET missing == validate_config(d.environ) IN
          last' = Outcome("startup", "", 0, "", missing = {},
                          IF missing = {} THEN "" ELSE "sys.exit(1)",
                          {[environ |-> d.environ, missing |-> missing]})
    /\ UNCHANGED <<memory, now, polls, options, votes, req, base, voted>>

\* AES256Encryption(secret_key, salt)
new_engine ==
    /\ last.op = "environment"
    /\ \E d \in last.data :
          LET engine == AES256Encryption_init(d.secret_key, d.salt,
                                              d.environ["POLLIVU_SALT"]) IN
          last' = [Outcome("AES256Encryption", "", 0, "", engine # {},
                           IF engine = {} THEN "ValueError" ELSE "",
                           {[environ |-> d.environ, secret_key |-> d.secret_key,
                             salt |-> d.salt, engine |-> engine]})
                   EXCEPT !.raised = (engine = {})]
    /\ UNCHANGED <<memory, now, polls, options, votes, req, base, voted>>

NextStartup == startup \/ new_engine

SpecStartup == InitStartup /\ [][NextStartup]_vars

(***************************************************************************)
(* The engines of the process: encryption.get_encryption keeps one engine  *)
(* for each secret key in _encryption_instances; derivations counts the    *)
(* calls of _derive_key for each secret key.  The calls come through the   *)
(* module's helpers and through the field helpers of the models.           *)
(***************************************************************************)
Derived(secret_key) ==
    IF secret_key \in DOMAIN derivations THEN derivations[secret_key] ELSE 0

\* AES256Encryption._derive_key has run once more for secret_key.
CountDerivation(secret_key) ==
    [k \in DOMAIN derivations \cup {secret_key} |->
        IF k = secret_key THEN Derived(secret_key) + 1 ELSE derivations[k]]

\* get_encryption(secret_key): the cached engine, or a new one that is
\* cached (POLLIVU_SALT is set, so that the engine can be created).
get_encryption(secret_key) ==
    IF secret_key \in DOMAIN encryption_instances
    THEN /\ UNCHANGED <<encryption_instances, derivations>>
    ELSE /\ Derived(secret_key) < MaxDerivations
         /\ \E engine \in AES256Encryption_init(secret_key, <<>>, QuestionEnviron) :
               encryption_instances' = encryption_instances @@ (secret_key :> engine)
         /\ derivations' = CountDerivation(secret_key)

\* encrypt_data(data, secret_key)
encrypt_data(data, secret_key, nonce) ==
    /\ last = NoOutcome
    /\ get_encryption(secret_key)
    /\ last' = Outcome("encrypt_data", "", 0, "", TRUE, "",
                       {[secret_key |-> secret_key,
                         result |-> encrypt(encryption_instances'[secret_key], data, nonce)]})
    /\ UNCHANGED <<now, polls, options, votes, req, base, voted, rooms, delivered, session, issued>>

\* decrypt_data(encrypted, secret_key)
decrypt_data(encrypted, secret_key) ==
    /\ last = NoOutcome
    /\ get_encryption(secret_key)
    /\ LET result == decrypt(encryption_instances'[secret_key], encrypted) IN
       last' = [Outcome("decrypt_data", "", 0, "", result # {},
                        IF result = {} THEN "ValueError" ELSE "",
                        {[secret_key |-> secret_key, result |-> result]})
                EXCEPT !.raised = (result = {})]
    /\ UNCHANGED <<now, polls, options, votes, req, base, voted, rooms, delivered, session, issued>>

\* EncryptedMixin.encrypt_field(value, secret_key): AES256Encryption(secret_key)
\* is built for the call, unless the value is empty.
encrypt_field_call(value, secret_key, nonce) ==
    /\ last = NoOutcome
    /\ IF value = <<>>
       THEN UNCHANGED derivations
       ELSE /\ Derived(secret_key) < MaxDerivations
            /\ derivations' = CountDerivation(secret_key)
    /\ last' = Outcome("encrypt_field", "", 0, "", TRUE, "",
                       {[secret_key |-> secret_key,
                         result |-> encrypt_field(value, secret_key, QuestionEnviron, nonce)]})
    /\ UNCHANGED <<now, polls, options, votes, req, base, voted,
                   encryption_instances, rooms, delivered, session,
                   issued>>

\* EncryptedMixin.decrypt_field(encrypted, secret_key)
decrypt_field_call(encrypted, secret_key) ==
    /\ last = NoOutcome
    /\ IF encrypted = <<>>
       THEN UNCHANGED derivations
       ELSE /\ Derived(secret_key) < MaxDerivations
            /\ derivations' = CountDerivation(secret_key)
    /\ last' = Outcome("decrypt_field", "", 0, "", TRUE, "",
                       {[secret_key |-> secret_key,
                         result |-> decrypt_field(encrypted, secret_key, QuestionEnviron)]})
    /\ UNCHANGED <<now, polls, options, votes, req, base, voted,
                   encryption_instances, rooms, delivered, session,
                   issued>>

\* The values and blobs of the calls: "", "A", and the blobs of "A" under
\* each secret key.
CacheNonce == CHOOSE n \in Nonces : TRUE
CacheValues == {<<>>, <<65>>}
CacheBlobs ==
    {<<>>} \cup {encrypt(engine, <<65>>, CacheNonce) :
                    engine \in UNION {AES256Encryption_init(k, <<>>, QuestionEnviron) :
                                        k \in SecretKeys}}

NextCache ==
    \/ \E x \in CacheValues, k \in SecretKeys : encrypt_data(x, k, CacheNonce)
    \/ \E b \in CacheBlobs, k \in SecretKeys : decrypt_data(b, k)
    \/ \E x \in CacheValues, k \in SecretKeys : encrypt_field_call(x, k, CacheNonce)
    \/ \E b \in CacheBlobs, k \in SecretKeys : decrypt_field_call(b, k)
    \/ Return

SpecCache == Init /\ [][NextCache]_vars

(***************************************************************************)
(* The poll id of a request.  The id is the text of the URL segment, a     *)
(* sequence of characters; views.view_poll, vote, poll_results and         *)
(* embed_poll test it with is_valid_poll_id before they fetch the poll,    *)
(* the other routes fetch the poll with Poll.query.get_or_404 at once.     *)
(* The outcome of a request whose poll was not fetched or not found tells  *)
(* whether the storage was asked.                                          *)
(***************************************************************************)
\* secrets.token_urlsafe: the URL-safe base64 text of the random bytes,
\* without its padding.
token_urlsafe(random_bytes) ==
    SelectSeq(urlsafe_b64encode(random_bytes), LAMBDA c : c # BASE64_PAD)

\* The variant that keeps the whole text of token_urlsafe.
generate_poll_id_untruncated(random_bytes) == token_urlsafe(random_bytes)

\* utils.generate_poll_id(length): token_urlsafe(length)[:length], from the
\* length random bytes drawn by token_urlsafe.
generate_poll_id(random_bytes) ==
    SubSeq(token_urlsafe(random_bytes), 1, Len(random_bytes))

\* The random bytes from which the poll ids of the model were made.
PollIdBytes(poll_id) ==
    IF poll_id = "Zk3_pollAAAAAAA1"
    THEN <<102, 77, 255, 166, 137, 101, 0, 0, 0, 0, 0, 53, 1, 2, 3, 4>>
    ELSE <<171, 238, 215, 166, 137, 101, 4, 16, 65, 4, 16, 118, 1, 2, 3, 4>>

\* The poll ids of the storage, as generate_poll_id returned them.
PollIdTexts == [p \in TwoPollIds |-> generate_poll_id(PollIdBytes(p))]

\* The characters of a poll id of the storage.
PollIdText(poll_id) == PollIdTexts[poll_id]

\* Variant: the colon is a character of poll ids too.
IsPollIdChar_or_colon(c) == c \in (65..90) \cup (97..122) \cup (48..57) \cup {95, 45, 58}

\* [A-Za-z0-9_-]
IsPollIdChar(c) == c \in (65..90) \cup (97..122) \cup (48..57) \cup {95, 45}

\* re.match(r'^[A-Za-z0-9_-]{8,32}$', poll_id): '$' matches at the end of
\* the text and before a line feed that ends the text.
MatchesPollIdPattern(poll_id) ==
    LET body == IF poll_id # <<>> /\ poll_id[Len(poll_id)] = 10
                THEN SubSeq(poll_id, 1, Len(poll_id) - 1)
                ELSE poll_id
    IN /\ Len(body) \in 8..32
       /\ \A i \in 1..Len(body) : IsPollIdChar(body[i])

\* utils.is_valid_poll_id
is_valid_poll_id(poll_id) ==
    /\ poll_id # <<>>
    /\ MatchesPollIdPattern(poll_id)

\* Poll.query.get(poll_id): the polls whose primary key is the text.
Lookup(raw_id) == {p \in DOMAIN polls : PollIdText(p) = raw_id}

RequestData(raw_id, looked_up) == {[poll_id |-> raw_id, looked_up |-> looked_up]}

\* The id was refused by is_valid_poll_id: the poll is not fetched.
InvalidPollId(op, raw_id, message) ==
    /\ last = NoOutcome
    /\ last' = Outcome(op, "", 0, "", FALSE, message, RequestData(raw_id, FALSE))
    /\ UNCHANGED <<memory, now, polls, options, votes, req, base, voted>>

\* get_or_404 / abort(404): the storage was asked and has no such poll.
NotFound(op, raw_id) ==
    /\ last = NoOutcome
    /\ last' = Outcome(op, "", 0, "", FALSE, "404", RequestData(raw_id, TRUE))
    /\ UNCHANGED <<memory, now, polls, options, votes, req, base, voted>>

\* A page or document of the poll: nothing is written.
ReadPoll(op, poll_id) ==
    /\ last = NoOutcome
    /\ last' = Outcome(op, poll_id, 0, "", TRUE, "",
                       {[total_votes |-> polls[poll_id].total_votes,
                         is_active |-> is_active(polls[poll_id], now),
                         results |-> Results(options, poll_id)]})
    /\ UNCHANGED <<memory, now, polls, options, votes, req, base, voted>>

\* GET /poll/<poll_id>
view_poll(raw_id) ==
    IF ~is_valid_poll_id(raw_id)
    THEN InvalidPollId("view_poll", raw_id, "404")
    ELSE IF Lookup(raw_id) = {}
         THEN NotFound("view_poll", raw_id)
         ELSE \E p \in Lookup(raw_id) : ReadPoll("view_poll", p)

\* POST /poll/<poll_id>/vote
vote_request(raw_id, option_id, session_id) ==
    IF ~is_valid_poll_id(raw_id)
    THEN InvalidPollId("vote", raw_id, "Invalid poll ID")
    ELSE IF Lookup(raw_id) = {}
         THEN NotFound("vote", raw_id)
         ELSE \E p \in Lookup(raw_id) : vote(p, option_id, session_id)

\* GET /poll/<poll_id>/results
poll_results(raw_id) ==
    IF ~is_valid_poll_id(raw_id)
    THEN InvalidPollId("poll_results", raw_id, "404")
    ELSE IF Lookup(raw_id) = {}
         THEN NotFound("poll_results", raw_id)
         ELSE \E p \in Lookup(raw_id) : ReadPoll("poll_results", p)

\* POST /poll/<poll_id>/close
close_poll_request(raw_id, stored_token, current_user_id) ==
    IF Lookup(raw_id) = {}
    THEN NotFound("close_poll", raw_id)
    ELSE \E p \in Lookup(raw_id) : close_poll_route(p, stored_token, current_user_id)

\* POST /poll/<poll_id>/reopen
reopen_poll_request(raw_id, stored_token, current_user_id) ==
    IF Lookup(raw_id) = {}
    THEN NotFound("reopen_poll", raw_id)
    ELSE \E p \in Lookup(raw_id) : reopen_poll_route(p, stored_token, current_user_id)

\* POST /poll/<poll_id>/delete
delete_poll_request(raw_id, stored_token, current_user_id) ==
    IF Lookup(raw_id) = {}
    THEN NotFound("delete_poll", raw_id)
    ELSE \E p \in Lookup(raw_id) : delete_poll_route(p, stored_token, current_user_id)

\* POST /poll/<poll_id>/edit, of a logged-in user
edit_poll_request(raw_id, current_user_id, allow_vote_change) ==
    IF Lookup(raw_id) = {}
    THEN NotFound("edit_poll", raw_id)
    ELSE \E p \in Lookup(raw_id) :
            edit_poll_route(p, current_user_id, FormQuestion, allow_vote_change, TRUE,
                            "never")

\* POST /poll/<poll_id>/option/add, of a logged-in user
add_poll_option_request(raw_id, current_user_id, raw_text) ==
    IF Lookup(raw_id) = {}
    THEN NotFound("add_option", raw_id)
    ELSE \E p \in Lookup(raw_id) : add_poll_option(p, current_user_id, raw_text)

\* POST /poll/<poll_id>/option/<option_id>/delete, of a logged-in user
delete_poll_option_request(raw_id, option_id, current_user_id) ==
    IF Lookup(raw_id) = {}
    THEN NotFound("delete_poll_option", raw_id)
    ELSE \E p \in Lookup(raw_id) : delete_poll_option_route(p, option_id, current_user_id)

\* GET /poll/<poll_id>/export/csv
export_csv(raw_id) ==
    IF Lookup(raw_id) = {}
    THEN NotFound("export_csv", raw_id)
    ELSE \E p \in Lookup(raw_id) : ReadPoll("export_csv", p)

\* GET /api/poll/<poll_id>/live_stats
api_poll_stats(raw_id) ==
    IF Lookup(raw_id) = {}
    THEN NotFound("api_poll_stats", raw_id)
    ELSE \E p \in Lookup(raw_id) : ReadPoll("api_poll_stats", p)

\* PollService.get_poll(poll_id)
get_poll(raw_id) == {polls[p] : p \in Lookup(raw_id)}

get_poll_call(raw_id) ==
    /\ last = NoOutcome
    /\ last' = Outcome("get_poll", "", 0, "", get_poll(raw_id) # {}, "",
                       {[poll_id |-> raw_id, poll |-> get_poll(raw_id)]})
    /\ UNCHANGED <<memory, now, polls, options, votes, req, base, voted>>

\* The ids of the requests: the id of the poll, "abcdefgh" that no poll
\* has, "abcdefg", "abcdefg!", "abcdefgh" with a line feed after it, and
\* 33 times "a".
RawPollIds ==
    {PollIdText(p) : p \in PollIds}
    \cup {<<97, 98, 99, 100, 101, 102, 103, 104>>,
          <<97, 98, 99, 100, 101, 102, 103>>,
          <<97, 98, 99, 100, 101, 102, 103, 33>>,
          <<97, 98, 99, 100, 101, 102, 103, 104, 10>>,
          [i \in 1..33 |-> 97]}

NextPollId ==
    \/ \E p \in PollIds, ol \in OptionLists, a \in BOOLEAN, u \in OwnerIds,
          ct \in generate_creator_token(polls) :
          create_poll(p, ct, FormQuestion, ol, "never", a, u)
    \/ \E raw \in RawPollIds : view_poll(raw)
    \/ \E raw \in RawPollIds, o \in OptionIdInputs, s \in SessionIds :
          vote_request(raw, o, s)
    \/ \E raw \in RawPollIds : poll_results(raw)
    \/ \E raw \in RawPollIds, st \in StoredTokens, u \in Requesters :
          close_poll_request(raw, st, u)
    \/ \E raw \in RawPollIds, st \in StoredTokens, u \in Requesters :
          reopen_poll_request(raw, st, u)
    \/ \E raw \in RawPollIds, st \in StoredTokens, u \in Requesters :
          delete_poll_request(raw, st, u)
    \/ \E raw \in RawPollIds, u \in UserIds, a \in BOOLEAN : edit_poll_request(raw, u, a)
    \/ \E raw \in RawPollIds, u \in UserIds, t \in AddTexts :
          add_poll_option_request(raw, u, t)
    \/ \E raw \in RawPollIds, o \in OptionIdInputs, u \in UserIds :
          delete_poll_option_request(raw, o, u)
    \/ \E raw \in RawPollIds : export_csv(raw)
    \/ \E raw \in RawPollIds : api_poll_stats(raw)
    \/ Return

SpecPollId == Init /\ [][NextPollId]_vars

(***************************************************************************)
(* polls/events.py: the rooms of the Socket.IO server.  rooms[name] is the *)
(* set of the clients in the room, delivered[client] the events the        *)
(* client was sent.  The handlers of 'join' and 'leave' are the only code  *)
(* that touches the rooms, and no code of the application emits an event:  *)
(* the vote route answers its own caller and nothing else.                 *)
(***************************************************************************)
Clients == {"c1", "c2"}

\* f"poll_{poll_id}"
RoomName(poll_id) == <<"poll_", poll_id>>

Room(name) == IF name \in DOMAIN rooms THEN rooms[name] ELSE {}

\* @socketio.on('join')
on_join(client, poll_id) ==
    /\ IF poll_id # ""
       THEN rooms' = [n \in DOMAIN rooms \cup {RoomName(poll_id)} |->
                        IF n = RoomName(poll_id) THEN Room(n) \cup {client} ELSE rooms[n]]
       ELSE UNCHANGED rooms
    /\ UNCHANGED <<now, polls, options, votes, last, req, base, voted,
                   encryption_instances, derivations, delivered, session,
                   issued>>

\* @socketio.on('leave')
on_leave(client, poll_id) ==
    /\ IF poll_id # ""
       THEN rooms' = [n \in DOMAIN rooms |->
                        IF n = RoomName(poll_id) THEN rooms[n] \ {client} ELSE rooms[n]]
       ELSE UNCHANGED rooms
    /\ UNCHANGED <<now, polls, options, votes, last, req, base, voted,
                   encryption_instances, derivations, delivered, session,
                   issued>>

\* The poll ids the clients send: those of the polls, and none.
JoinPollIds == PollIds \cup {""}

NextRooms ==
    \/ \E p \in PollIds, ol \in OptionLists, a \in BOOLEAN, u \in OwnerIds,
          ct \in generate_creator_token(polls) :
          create_poll(p, ct, FormQuestion, ol, "never", a, u)
    \/ \E c \in Clients, p \in JoinPollIds : on_join(c, p)
    \/ \E c \in Clients, p \in JoinPollIds : on_leave(c, p)
    \/ \E raw \in RawPollIds, o \in OptionIdInputs, s \in SessionIds :
          vote_request(raw, o, s)
    \/ Return

SpecRooms == Init /\ [][NextRooms]_vars

(***************************************************************************)
(* PollService.create_poll with the forms it can be given: questions with  *)
(* and without blanks around them, option lists with blank entries, and    *)
(* expiration choices within and outside the four the code knows.          *)
(***************************************************************************)
CreateQuestions == {FormQuestion, <<" ", "Q", "\t">>, <<>>}
CreateOptionLists == OptionLists \cup {<<tBlank, tB, <<>>, tA>>, <<tA, <<" ", "C">>, tB>>}
CreateExpirations == {"1h", "24h", "7d", "30d", "never", "24", ""}

NextCreate ==
    \/ \E p \in PollIds, q \in CreateQuestions, ol \in CreateOptionLists,
          e \in CreateExpirations, u \in OwnerIds,
          ct \in generate_creator_token(polls) :
          create_poll(p, ct, q, ol, e, FALSE, u)
    \/ \E raw \in RawPollIds : get_poll_call(raw)
    \/ \E p \in PollIds, o \in OptionIdInputs : vote(p, o, SessionPool[1])
    \/ \E p \in PollIds : delete_poll(p)
    \/ Tick
    \/ Return

SpecCreate == Init /\ [][NextCreate]_vars

(***************************************************************************)
(* Voter tokens: a session id and two poll ids are drawn, the token of the *)
(* session is derived for both polls, then the hashes to store.            *)
(***************************************************************************)
\* Session ids and poll ids of every shape, the empty string, the
\* separator and prefixes of one another included.
TokenSessionIds == SessionIds \cup {"sA:Zk3", ":"}
TokenPollIds == TwoPollIds \cup {"Zk3", "", "pollAAAAAAA1"}

InitTokens ==
    /\ now = 0
    /\ polls = <<>>
    /\ options = <<>>
    /\ votes = EmptyBag
    /\ req = [r \in ReqIds |-> IdleReq]
    /\ base = EmptyDB
    /\ voted = {}
    /\ InitMemory
    /\ \E sid \in TokenSessionIds, p1 \in TokenPollIds, p2 \in TokenPollIds :
          last = Outcome("voter_token_input", p1, 0, sid, TRUE, "",
                         {[other_poll_id |-> p2]})

derive_voter_tokens ==
    /\ last.op = "voter_token_input"
    /\ \E d \in last.data :
          last' = Outcome("generate_voter_token", last.poll_id, 0, last.session_id,
                          TRUE, "",
                          {[other_poll_id |-> d.other_poll_id,
                            token |-> generate_voter_token(last.session_id, last.poll_id),
                            other_token |->
                               generate_voter_token(last.session_id, d.other_poll_id)]})
    /\ UNCHANGED <<memory, now, polls, options, votes, req, base, voted>>

hash_voter_tokens ==
    /\ last.op = "generate_voter_token"
    /\ \E d \in last.data :
          last' = Outcome("hash_voter_token", last.poll_id, 0, last.session_id,
                          TRUE, "",
                          {[other_poll_id |-> d.other_poll_id,
                            token |-> d.token,
                            other_token |-> d.other_token,
                            voter_hash |-> hash_voter_token(d.token),
                            other_voter_hash |-> hash_voter_token(d.other_token)]})
    /\ UNCHANGED <<memory, now, polls, options, votes, req, base, voted>>

NextTokens == derive_voter_tokens \/ hash_voter_tokens

SpecTokens == InitTokens /\ [][NextTokens]_vars

(***************************************************************************)
(* Votes on a storage that can refuse a commit: every call of vote is made *)
(* either on a working storage or on one whose commit raises.              *)
(***************************************************************************)
NextFault ==
    \/ \E p \in PollIds, ol \in OptionLists, e \in ExpirationChoices \ {"current"},
          a \in BOOLEAN, u \in OwnerIds, ct \in generate_creator_token(polls) :
          create_poll(p, ct, FormQuestion, ol, e, a, u)
    \/ \E p \in PollIds, o \in OptionIdInputs, s \in SessionIds : vote(p, o, s)
    \/ \E p \in PollIds, o \in OptionIdInputs, s \in SessionIds :
          vote_commit_fails(p, o, s)
    \/ \E p \in PollIds, t \in AddTexts : add_option(p, t)
    \/ \E p \in PollIds : close_poll(p)
    \/ Tick
    \/ Return

SpecFault == Init /\ [][NextFault]_vars

(***************************************************************************)
(* A voter who votes again for the option of their Vote row: the first     *)
(* call of a session on a poll is for any option, every later one is for   *)
(* the option the session's row references.                                *)
(***************************************************************************)
\* PollService.vote called by a session that has no Vote row on the poll.
first_vote(poll_id, option_id, session_id) ==
    /\ VotesOf(votes, poll_id, hash_voter_token(generate_voter_token(session_id, poll_id))) = {}
    /\ vote(poll_id, option_id, session_id)

\* PollService.vote called with the option_id of the session's Vote row.
vote_again(poll_id, session_id) ==
    \E v \in VotesOf(votes, poll_id, hash_voter_token(generate_voter_token(session_id, poll_id))) :
       vote(poll_id, v.option_id, session_id)

NextRevote ==
    \/ \E p \in PollIds, ol \in OptionLists, a \in BOOLEAN, u \in OwnerIds,
          ct \in generate_creator_token(polls) :
          create_poll(p, ct, FormQuestion, ol, "1h", a, u)
    \/ \E p \in PollIds, o \in OptionIdInputs, s \in SessionIds : first_vote(p, o, s)
    \/ \E p \in PollIds, s \in SessionIds : vote_again(p, s)
    \/ \E p \in PollIds, t \in AddTexts : add_option(p, t)
    \/ \E p \in PollIds, o \in OptionIdInputs, u \in OwnerIds : delete_poll_option(p, o, u)
    \/ \E p \in PollIds : close_poll(p)
    \/ \E p \in PollIds : reopen_poll(p)
    \/ Tick
    \/ Return

SpecRevote == Init /\ [][NextRevote]_vars

(***************************************************************************)
(* Polls that come and go: two poll ids, each created, voted on and        *)
(* deleted by uninterrupted calls, with options added and deleted.         *)
(***************************************************************************)
NextCascade ==
    \/ \E p \in TwoPollIds, ol \in OptionLists, u \in OwnerIds,
          ct \in generate_creator_token(polls) :
          create_poll(p, ct, FormQuestion, ol, "never", TRUE, u)
    \/ \E p \in TwoPollIds, o \in TwoPollOptionIdInputs, s \in SessionIds : vote(p, o, s)
    \/ \E p \in TwoPollIds : add_option(p, tC)
    \/ \E p \in TwoPollIds, o \in TwoPollOptionIdInputs, u \in OwnerIds :
          delete_poll_option(p, o, u)
    \/ \E p \in TwoPollIds : delete_poll(p)
    \/ Return

SpecCascade == Init /\ [][NextCascade]_vars

(***************************************************************************)
(* tasks.cleanup_expired_polls                                             *)
(***************************************************************************)
\* Variant: every poll that has an expiration is selected.
ExpiredPolls_any_expiration(pls, t) == {p \in DOMAIN pls : pls[p].expires_at # {}}

\* Poll.query.filter(Poll.expires_at.isnot(None), Poll.expires_at < now).all()
ExpiredPolls(pls, t) ==
    {p \in DOMAIN pls : pls[p].expires_at # {} /\ \A e \in pls[p].expires_at : e < t}

\* count = len(expired_polls); db.session.delete(poll) for each of them,
\* which cascades to the poll's options and votes; commit; return count.
cleanup_expired_polls ==
    /\ last = NoOutcome
    /\ LET expired_polls == ExpiredPolls(polls, now) IN
       /\ polls' = Restrict(polls, DOMAIN polls \ expired_polls)
       /\ options' = Restrict(options, {o \in DOMAIN options : options[o].poll_id \notin expired_polls})
       /\ votes' = BagRestrict(votes, {v \in DOMAIN votes : v.poll_id \notin expired_polls})
       /\ voted' = {h \in voted : h[1] \notin expired_polls}
       /\ last' = Outcome("cleanup_expired_polls", "", 0, "", TRUE, "",
                          {[count |-> Cardinality(expired_polls)]})
    /\ UNCHANGED <<memory, now, req, base>>

\* Two polls with and without an expiration, voted on by one session and
\* closed while the clock advances and the cleanup task runs.
NextCleanup ==
    \/ \E p \in TwoPollIds, ol \in OptionLists, e \in {"1h", "never"}, u \in OwnerIds,
          ct \in generate_creator_token(polls) :
          create_poll(p, ct, FormQuestion, ol, e, FALSE, u)
    \/ \E p \in TwoPollIds, o \in TwoPollOptionIdInputs : vote(p, o, SessionPool[1])
    \/ \E p \in TwoPollIds : close_poll(p)
    \/ cleanup_expired_polls
    \/ Tick
    \/ Return

SpecCleanup == Init /\ [][NextCleanup]_vars

(***************************************************************************)
(* Options added to a poll up to the allowed maximum: the poll is created  *)
(* with two or nine options, and texts of every kind are offered: new      *)
(* ones, ones that differ from an existing one by case or by surrounding   *)
(* white space only, empty ones, and ones of 200 and of 201 characters.    *)
(***************************************************************************)
NineOptions == <<tA, tB, tC, <<"D">>, <<"e">>, <<"f">>, <<"g">>, <<"h">>, <<"i">>>>

LongText(n) == [i \in 1..n |-> "x"]

OptionTextInputs ==
    {<<"j">>, <<"k">>, <<"a">>, <<" ", "B", "\t">>, <<>>, tBlank,
     LongText(MAX_OPTION_LENGTH), LongText(MAX_OPTION_LENGTH + 1)}

NextOptions ==
    \/ \E p \in PollIds, ol \in OptionLists \cup {NineOptions}, u \in OwnerIds,
          ct \in generate_creator_token(polls) :
          create_poll_within(p, ct, FormQuestion, ol, "never", FALSE, u, MaxAddedOptionId)
    \/ \E p \in PollIds, t \in OptionTextInputs : add_option_within(p, t, MaxAddedOptionId)
    \/ \E p \in PollIds, o \in {1, MAX_POLL_OPTIONS}, u \in OwnerIds : delete_poll_option(p, o, u)
    \/ \E p \in PollIds, o \in {1, 2} : vote(p, o, SessionPool[1])
    \/ Return

SpecOptions == Init /\ [][NextOptions]_vars

(***************************************************************************)
(* The browser's session (app.py, auth/routes.py, polls/routes.py).  Every *)
(* request runs setup_session before its view.  The requests of one        *)
(* browser follow one another; the owner's changes of the options come     *)
(* from any browser.                                                       *)
(***************************************************************************)
\* What generate_session_id can return.
BrowserSessionIds == {"sA", "sB", "sC"}

\* generate_session_id(): a value not returned before (the random values
\* are taken not to repeat); the values being interchangeable, one unused
\* value stands for all.
generate_session_id(used) ==
    IF BrowserSessionIds \ used = {} THEN {}
    ELSE {CHOOSE sid \in BrowserSessionIds \ used : TRUE}

\* @app.before_request setup_session: the sessions the view can find.
setup_session(sess, used) ==
    IF sess.session_id = {}
    THEN {[sess EXCEPT !.session_id = {sid}] : sid \in generate_session_id(used)}
    ELSE {sess}

\* session.get('session_id', '')
SessionId(sess) == IF sess.session_id = {} THEN "" ELSE CHOOSE sid \in sess.session_id : TRUE

\* current_user.is_authenticated
is_authenticated(sess) == sess.user_id # {}

\* The response carries the session sess; the database is not written.
Respond(sess, outcome) ==
    /\ session' = sess
    /\ issued' = issued \cup sess.session_id
    /\ last' = outcome
    /\ UNCHANGED <<now, polls, options, votes, req, base, voted,
                   encryption_instances, derivations, rooms, delivered>>

\* GET /: a page that reads nothing of the session.
landing ==
    /\ last = NoOutcome
    /\ \E s1 \in setup_session(session, issued) :
          Respond(s1, Outcome("landing", "", 0, SessionId(s1), TRUE, "", NoData))

\* existing_vote of view_poll: the Vote rows of the session on the poll.
existing_vote(sess, vs, poll_id) ==
    VotesOf(vs, poll_id, hash_voter_token(generate_voter_token(SessionId(sess), poll_id)))

\* GET /poll/<poll_id> of an existing poll: has_voted and voted_option_id.
view_poll_page(poll_id) ==
    /\ last = NoOutcome
    /\ poll_id \in DOMAIN polls
    /\ \E s1 \in setup_session(session, issued) :
          LET found == existing_vote(s1, votes, poll_id) IN
          Respond(s1, Outcome("view_poll", poll_id, 0, SessionId(s1), TRUE, "",
                              {[has_voted |-> found # {},
                                voted_option_id |-> {v.option_id : v \in found}]}))

\* POST /poll/<poll_id>/vote of an existing poll with the session's id.
vote_route(poll_id, option_id) ==
    /\ last = NoOutcome
    /\ poll_id \in DOMAIN polls
    /\ \E s1 \in setup_session(session, issued) :
          LET D == DB(polls, options, votes)
              r == RunVote(StartReq(poll_id, option_id, SessionId(s1), D), D, now)
          IN /\ polls' = r.db.polls
             /\ options' = r.db.options
             /\ votes' = r.db.votes
             /\ last' = r.rq.outcome
             /\ voted' = Voted(voted, r.rq)
             /\ session' = s1
             /\ issued' = issued \cup s1.session_id
    /\ UNCHANGED <<now, req, base, encryption_instances, derivations, rooms, delivered>>

\* Variant: a successful login keeps the session as it is.
login_keep_session(user_id, password_ok) ==
    /\ last = NoOutcome
    /\ \E s1 \in setup_session(session, issued) :
          IF is_authenticated(s1) \/ ~password_ok
          THEN Respond(s1, Outcome("login", "", 0, SessionId(s1), FALSE, "", NoData))
          ELSE LET s2 == [s1 EXCEPT !.user_id = {user_id}]
               IN Respond(s2, Outcome("login", "", 0, SessionId(s2), TRUE, "", NoData))

\* POST /login: an authenticated user is redirected; on an email and
\* password that match, session.clear(), a new session_id, login_user.
login(user_id, password_ok) ==
    /\ last = NoOutcome
    /\ \E s1 \in setup_session(session, issued) :
          IF is_authenticated(s1) \/ ~password_ok
          THEN Respond(s1, Outcome("login", "", 0, SessionId(s1), FALSE, "", NoData))
          ELSE \E sid \in generate_session_id(issued \cup s1.session_id) :
                  LET s2 == [NoSession EXCEPT !.session_id = {sid}, !.user_id = {user_id}]
                  IN /\ issued' = issued \cup s1.session_id \cup {sid}
                     /\ session' = s2
                     /\ last' = Outcome("login", "", 0, sid, TRUE, "", NoData)
                     /\ UNCHANGED <<now, polls, options, votes, req, base, voted,
                                    encryption_instances, derivations, rooms, delivered>>

\* GET /logout (@login_required): logout_user() removes the user from the
\* session and leaves its other keys.
logout ==
    /\ last = NoOutcome
    /\ \E s1 \in setup_session(session, issued) :
          IF ~is_authenticated(s1)
          THEN Respond(s1, Outcome("logout", "", 0, SessionId(s1), FALSE, "", NoData))
          ELSE Respond([s1 EXCEPT !.user_id = {}],
                       Outcome("logout", "", 0, SessionId(s1), TRUE, "", NoData))

\* POST /register: an authenticated user is redirected; a new account is
\* logged in with login_user, the session keeps its other keys.
register(user_id, email_free) ==
    /\ last = NoOutcome
    /\ \E s1 \in setup_session(session, issued) :
          IF is_authenticated(s1) \/ ~email_free
          THEN Respond(s1, Outcome("register", "", 0, SessionId(s1), FALSE, "", NoData))
          ELSE Respond([s1 EXCEPT !.user_id = {user_id}],
                       Outcome("register", "", 0, SessionId(s1), TRUE, "", NoData))

\* POST /create (@login_required): the poll is created for current_user
\* and its creator token is stored in session['creator_tokens'].
create_poll_route(poll_id, option_texts, allow_vote_change) ==
    /\ \E s1 \in setup_session(session, issued) :
          /\ is_authenticated(s1)
          /\ \E ct \in generate_creator_token(polls), u \in s1.user_id :
                /\ create_poll_rows(poll_id, ct, FormQuestion, option_texts, "never",
                                    allow_vote_change, u, MaxOptionId)
                /\ session' = IF last'.ok
                              THEN [s1 EXCEPT !.creator_tokens =
                                       (poll_id :> ct) @@ s1.creator_tokens]
                              ELSE s1
          /\ issued' = issued \cup s1.session_id
    /\ UNCHANGED <<now, req, base, voted, encryption_instances, derivations, rooms, delivered>>

NextSession ==
    \/ landing
    \/ \E p \in PollIds : view_poll_page(p)
    \/ \E p \in PollIds, o \in OptionIdInputs : vote_route(p, o)
    \/ \E u \in OwnerIds, ok \in BOOLEAN : login(u, ok)
    \/ logout
    \/ \E u \in OwnerIds, ok \in BOOLEAN : register(u, ok)
    \/ \E p \in PollIds, ol \in OptionLists, a \in BOOLEAN : create_poll_route(p, ol, a)
    \/ \E p \in PollIds : add_option(p, tC)
    \/ \E p \in PollIds, o \in OptionIdInputs, u \in OwnerIds : delete_poll_option(p, o, u)
    \/ Return

SpecSession == Init /\ [][NextSession]_vars

(***************************************************************************)
(* The text hashed by generate_voter_token, for two pairs of a session id  *)
(* and a poll id.  Texts are sequences of code points; session ids are     *)
(* any text the cookie can hold, poll ids any text a URL can carry.        *)
(***************************************************************************)
\* f"{session_id}:{poll_id}"
voter_token_message(session_id, poll_id) == session_id \o <<58>> \o poll_id

\* "", "x", "x:", "x:y", ":"
MessageSessionIds == {<<>>, <<120>>, <<120, 58>>, <<120, 58, 121>>, <<58>>}

\* "zzzzzzzz", "yzzzzzzz", "y:zzzzzzzz", ":zzzzzzzz", "zzzzzzzz\n" and a
\* poll id of the storage.
MessagePollIds ==
    {[i \in 1..8 |-> 122],
     <<121>> \o [i \in 1..7 |-> 122],
     <<121, 58>> \o [i \in 1..8 |-> 122],
     <<58>> \o [i \in 1..8 |-> 122],
     [i \in 1..8 |-> 122] \o <<10>>}
    \cup {PollIdText(p) : p \in PollIds}

InitMessages ==
    /\ now = 0
    /\ polls = <<>>
    /\ options = <<>>
    /\ votes = EmptyBag
    /\ req = [r \in ReqIds |-> IdleReq]
    /\ base = EmptyDB
    /\ voted = {}
    /\ InitMemory
    /\ \E s1 \in MessageSessionIds, p1 \in MessagePollIds,
          s2 \in MessageSessionIds, p2 \in MessagePollIds :
          last = Outcome("message_input", "", 0, "", TRUE, "",
                         {[session_id |-> s1, poll_id |-> p1,
                           other_session_id |-> s2, other_poll_id |-> p2]})

\* The routes validate the poll id with is_valid_poll_id and hand it, with
\* the session's id, to generate_voter_token.
voter_token_messages ==
    /\ last.op = "message_input"
    /\ \E d \in last.data :
          last' = Outcome("voter_token_message", "", 0, "", TRUE, "",
                         {[session_id |-> d.session_id, poll_id |-> d.poll_id,
                           other_session_id |-> d.other_session_id,
                           other_poll_id |-> d.other_poll_id,
                           valid |-> is_valid_poll_id(d.poll_id),
                           other_valid |-> is_valid_poll_id(d.other_poll_id),
                           message |-> voter_token_message(d.session_id, d.poll_id),
                           other_message |->
                              voter_token_message(d.other_session_id, d.other_poll_id)]})
    /\ UNCHANGED <<memory, now, polls, options, votes, req, base, voted>>

NextMessages == voter_token_messages

SpecMessages == InitMessages /\ [][NextMessages]_vars

(***************************************************************************)
(* Properties.                                                             *)
(***************************************************************************)

\* C1: in every state reached by running create_poll, vote, add_option,
\* option deletion, close_poll, reopen_poll and edit_poll one after the
\* other, each poll's total_votes equals the sum of the vote_count of the
\* options that belong to it.
C1_TotalEqualsSumOfCounts ==
    \A p \in DOMAIN polls : polls[p].total_votes = SumVoteCounts(options, p)

\* Two voters have voted and one of them has just changed the vote.
C1_Witness ==
    /\ last.op = "vote"
    /\ last.message = "Vote changed successfully"
    /\ \E p \in DOMAIN polls : polls[p].total_votes = 2

\* C2: in every reachable state, under every interleaving of overlapping
\* vote requests, the votes table holds at most one row for each
\* (poll_id, voter_token_hash).
C2_OneVoteRowPerVoter ==
    \A v \in DOMAIN votes : NumVoteRows(votes, v.poll_id, v.voter_token_hash) <= 1

\* Two requests of one voter both found no vote; one inserted its row and
\* the insert of the other was rejected.
C2_Witness ==
    \E r1, r2 \in ReqIds :
        /\ req[r1].pc = "done" /\ req[r1].outcome.ok
        /\ req[r2].pc = "done" /\ req[r2].insert_rejected
        /\ req[r1].poll_id = req[r2].poll_id
        /\ req[r1].session_id = req[r2].session_id

\* The voter's rows of poll p, the voter being the session s.
RowsOfVoter(vs, p, s) == VotesOf(vs, p, hash_voter_token(generate_voter_token(s, p)))

\* The call vote(p, o, s) is made on a poll that is active (not closed, no
\* expiration in the past) with an option of that poll.
ActiveAndValid(p, o) ==
    /\ ~polls[p].is_closed
    /\ ~(\E e \in polls[p].expires_at : now > e)
    /\ o \in DOMAIN options
    /\ options[o].poll_id = p

\* The step is the call vote(p, o, s), whose result is last'.
VoteCall(p, o, s) == last'.op = "vote" /\ vote(p, o, s)

AlreadyVoted(outcome) ==
    ~outcome.ok /\ ~outcome.raised /\ outcome.message = "You have already voted"

\* C3, as stated: on an active poll with an option of the poll, the call of
\* a session that has not voted on the poll succeeds, and every call of a
\* session that has voted on it before is rejected with AlreadyVoted unless
\* allow_vote_change is true.
C3_SucceedsExactlyOnce ==
    [][\A p \in {last'.poll_id}, o \in {last'.option_id}, s \in {last'.session_id} :
          (VoteCall(p, o, s) /\ ActiveAndValid(p, o)) =>
             IF <<p, s>> \notin voted
             THEN last'.ok
             ELSE polls[p].allow_vote_change \/ AlreadyVoted(last')]_vars

\* C3, amended: as C3, the rejection of a later call being promised only
\* while the session's Vote row exists; once the option it referenced has
\* been deleted the session's next call succeeds as a new vote.
C3_SucceedsOncePerVoteRow ==
    [][\A p \in {last'.poll_id}, o \in {last'.option_id}, s \in {last'.session_id} :
          (VoteCall(p, o, s) /\ ActiveAndValid(p, o)) =>
             IF <<p, s>> \notin voted \/ RowsOfVoter(votes, p, s) = {}
             THEN last'.ok /\ RowsOfVoter(votes', p, s) # {}
             ELSE polls[p].allow_vote_change \/ AlreadyVoted(last')]_vars

\* A session that voted before has just been rejected with AlreadyVoted.
C3_Witness ==
    /\ last.op = "vote"
    /\ AlreadyVoted(last)
    /\ <<last.poll_id, last.session_id>> \in voted

\* Requests r1 and r2 are the only ones that ran since base; both are calls
\* of one session, without a vote in base, on the same active poll, each
\* with an option of the poll; both have finished.
TwoCallsOfNewVoter(r1, r2) ==
    /\ r1 # r2
    /\ req[r1].pc = "done" /\ req[r2].pc = "done"
    /\ \A q \in ReqIds \ {r1, r2} : req[q].pc = "idle"
    /\ req[r1].poll_id = req[r2].poll_id
    /\ req[r1].session_id = req[r2].session_id
    /\ req[r1].poll_id \in DOMAIN base.polls
    /\ is_active(base.polls[req[r1].poll_id], now)
    /\ req[r1].option_id \in PollOptions(base.options, req[r1].poll_id)
    /\ req[r2].option_id \in PollOptions(base.options, req[r1].poll_id)
    /\ RowsOfVoter(base.votes, req[r1].poll_id, req[r1].session_id) = {}

\* C4, as stated: of two overlapping calls of a session without a vote on
\* an active poll exactly one succeeds, and after both total_votes and the
\* vote_count of the option of the successful call are 1 higher and the
\* voter has exactly one Vote row.
C4_ExactlyOneSucceeds ==
    \A r1, r2 \in ReqIds :
        TwoCallsOfNewVoter(r1, r2) =>
            /\ req[r1].outcome.ok # req[r2].outcome.ok
            /\ LET p == req[r1].poll_id
                   o == IF req[r1].outcome.ok THEN req[r1].option_id ELSE req[r2].option_id
               IN /\ polls[p].total_votes = base.polls[p].total_votes + 1
                  /\ options[o].vote_count = base.options[o].vote_count + 1
                  /\ NumVoteRows(votes, p, VoterHash(req[r1])) = 1

\* C4, amended: exactly one of the two calls is recorded as a new vote; the
\* other fails, or, on a poll with allow_vote_change true, succeeds as a
\* change of that vote.  After both, total_votes is 1 higher, the voter has
\* exactly one Vote row, the option it references has a vote_count 1 higher
\* and every other option of the poll has its vote_count unchanged.
C4_ExactlyOneNewVote ==
    \A r1, r2 \in ReqIds :
        TwoCallsOfNewVoter(r1, r2) =>
            LET p == req[r1].poll_id
                allow == base.polls[p].allow_vote_change
                rows == RowsOfVoter(votes, p, req[r1].session_id)
            IN /\ \E w \in {r1, r2} :
                     /\ req[w].outcome.ok /\ req[w].outcome.message = "Vote recorded"
                     /\ \A x \in {r1, r2} \ {w} :
                           \/ ~req[x].outcome.ok
                           \/ allow /\ req[x].outcome.message = "Vote changed successfully"
               /\ ~allow => (req[r1].outcome.ok # req[r2].outcome.ok)
               /\ polls[p].total_votes = base.polls[p].total_votes + 1
               /\ NumVoteRows(votes, p, VoterHash(req[r1])) = 1
               /\ \A v \in rows : \A q \in PollOptions(options, p) :
                     options[q].vote_count =
                        base.options[q].vote_count + (IF q = v.option_id THEN 1 ELSE 0)

\* Both calls of the new voter have finished, one recorded, the other
\* stopped by the uniqueness constraint.
C4_Witness ==
    \E r1, r2 \in ReqIds :
        /\ TwoCallsOfNewVoter(r1, r2)
        /\ req[r1].outcome.message = "Vote recorded"
        /\ req[r2].insert_rejected
        /\ req[r1].option_id # req[r2].option_id

\* C5: a call of vote whose INSERT the storage layer rejected, because an
\* overlapping request had inserted a Vote for the same (poll, voter hash),
\* returns the AlreadyVoted failure; no exception leaves the call.
C5_RejectedInsertReturnsAlreadyVoted ==
    \A r \in ReqIds : req[r].insert_rejected => AlreadyVoted(req[r].outcome)

\* C6: when the requests that ran since base are calls of different
\* sessions, none with a vote in base, on the same poll, then once all have
\* finished total_votes has grown by the number of calls that succeeded as
\* new votes and each option's vote_count by the number of those for it.
C6_NoLostCounterUpdate ==
    LET done == {r \in ReqIds : req[r].pc = "done"}
        recorded(S) == {r \in S : req[r].outcome.ok /\ req[r].outcome.message = "Vote recorded"}
    IN (/\ done # {}
        /\ \A r \in ReqIds : req[r].pc \in {"idle", "done"}
        /\ \A r1, r2 \in done :
              /\ req[r1].poll_id = req[r2].poll_id
              /\ r1 # r2 => req[r1].session_id # req[r2].session_id
        /\ \A r \in done : RowsOfVoter(base.votes, req[r].poll_id, req[r].session_id) = {})
       => \A r \in done :
             LET p == req[r].poll_id IN
             /\ polls[p].total_votes =
                   base.polls[p].total_votes + Cardinality(recorded(done))
             /\ \A o \in PollOptions(options, p) :
                   options[o].vote_count =
                      base.options[o].vote_count
                        + Cardinality({x \in recorded(done) : req[x].option_id = o})

\* C7: a call of vote that finds no existing vote (active poll, option of
\* the poll) inserts one Vote row for (poll, voter hash, option), adds
\* exactly 1 to that option's vote_count and to the poll's total_votes,
\* leaves every other option's vote_count unchanged, and returns success
\* with voted_option_id the requested option and total_votes and results
\* equal to the stored values after the vote.
C7_NewVoteEffect ==
    [][\A p \in {last'.poll_id}, o \in {last'.option_id}, s \in {last'.session_id} :
          (VoteCall(p, o, s) /\ ActiveAndValid(p, o) /\ RowsOfVoter(votes, p, s) = {}) =>
             /\ votes' = votes (+) SetToBag({VoteRow(p, hash_voter_token(generate_voter_token(s, p)), o)})
             /\ DOMAIN options' = DOMAIN options
             /\ \A q \in DOMAIN options :
                   options'[q].vote_count = options[q].vote_count + (IF q = o THEN 1 ELSE 0)
             /\ polls'[p].total_votes = polls[p].total_votes + 1
             /\ last'.ok /\ ~last'.raised
             /\ last'.data =
                   {[voted_option_id |-> o,
                     total_votes |-> polls'[p].total_votes,
                     results |-> [q \in {x \in DOMAIN options' : options'[x].poll_id = p}
                                     |-> options'[q].vote_count]]}]_vars

\* A second voter's new vote has just been recorded.
C7_Witness ==
    /\ last.op = "vote"
    /\ last.message = "Vote recorded"
    /\ \E d \in last.data : d.total_votes = 2 /\ d.voted_option_id = last.option_id

\* C8: a call of vote by a session that has a Vote row, on an active poll
\* with allow_vote_change true, leaves total_votes unchanged, takes 1 from
\* the vote_count of the option the row referenced, adds 1 to the
\* vote_count of the requested option, and reassigns the row to the
\* requested option without creating a second row.
C8_VoteChangeEffect ==
    [][\A p \in {last'.poll_id}, o \in {last'.option_id}, s \in {last'.session_id} :
          (/\ VoteCall(p, o, s)
           /\ ActiveAndValid(p, o)
           /\ RowsOfVoter(votes, p, s) # {}
           /\ polls[p].allow_vote_change) =>
             \A v \in RowsOfVoter(votes, p, s) :
                /\ last'.ok
                /\ polls' = polls
                /\ DOMAIN options' = DOMAIN options
                /\ \A q \in DOMAIN options :
                      options'[q].vote_count =
                         options[q].vote_count - (IF q = v.option_id THEN 1 ELSE 0)
                                               + (IF q = o THEN 1 ELSE 0)
                /\ votes' = (votes (-) SetToBag({v}))
                               (+) SetToBag({[v EXCEPT !.option_id = o]})
                /\ NumVoteRows(votes', p, v.voter_token_hash) = 1]_vars

\* The only vote of the poll has just been moved to another option: the
\* requested option counts 1, the poll's total is still 1 and another
\* option is back at 0.
C8_Witness ==
    /\ last.op = "vote"
    /\ last.message = "Vote changed successfully"
    /\ last.poll_id \in DOMAIN polls
    /\ polls[last.poll_id].total_votes = 1
    /\ last.option_id \in DOMAIN options
    /\ options[last.option_id].vote_count = 1
    /\ \E h \in voted : h[1] = last.poll_id

\* C9: a call of vote rejected with AlreadyVoted (the session has a Vote
\* row, allow_vote_change is false) changes nothing: the row still
\* references its option, and no vote_count and no total_votes changes.
C9_AlreadyVotedChangesNothing ==
    [][\A p \in {last'.poll_id}, o \in {last'.option_id}, s \in {last'.session_id} :
          (/\ VoteCall(p, o, s)
           /\ ActiveAndValid(p, o)
           /\ RowsOfVoter(votes, p, s) # {}
           /\ ~polls[p].allow_vote_change) =>
             /\ AlreadyVoted(last')
             /\ last'.data = NoData
             /\ UNCHANGED <<polls, options, votes>>]_vars

\* A voter holding a vote for one option asked for another one and was
\* rejected; the row still references the first option.
C9_Witness ==
    /\ last.op = "vote"
    /\ AlreadyVoted(last)
    /\ \E v \in RowsOfVoter(votes, last.poll_id, last.session_id) :
          /\ v.option_id # last.option_id
          /\ options[v.option_id].vote_count = 1

\* C10: a call of vote on a poll that is not active (is_closed true, or
\* expires_at in the past whatever is_closed is) is rejected with
\* PollInactive for every option id and every session, and no Vote row and
\* no counter changes.
C10_InactivePollRejectsVotes ==
    [][\A p \in {last'.poll_id}, o \in {last'.option_id}, s \in {last'.session_id} :
          (/\ VoteCall(p, o, s)
           /\ (polls[p].is_closed \/ \E e \in polls[p].expires_at : now > e)) =>
             /\ ~last'.ok /\ ~last'.raised
             /\ last'.message = "Poll is no longer active"
             /\ last'.data = NoData
             /\ UNCHANGED <<polls, options, votes>>]_vars

\* An expired poll that is not closed has just rejected the vote of a
\* voter for an option of the poll.
C10_Witness ==
    /\ last.op = "vote"
    /\ last.message = "Poll is no longer active"
    /\ last.poll_id \in DOMAIN polls
    /\ ~polls[last.poll_id].is_closed
    /\ \E e \in polls[last.poll_id].expires_at : now > e
    /\ last.option_id \in PollOptions(options, last.poll_id)

\* C11: a call of vote on an active poll with an option id that is no
\* option of that poll (no such row, or a row of another poll) is rejected
\* with "Invalid option", whether or not the session holds a vote, and no
\* Vote row and no counter of any poll changes.
C11_InvalidOptionRejected ==
    [][\A p \in {last'.poll_id}, o \in {last'.option_id}, s \in {last'.session_id} :
          (/\ VoteCall(p, o, s)
           /\ ~polls[p].is_closed
           /\ ~(\E e \in polls[p].expires_at : now > e)
           /\ (o \notin DOMAIN options \/ options[o].poll_id # p)) =>
             /\ ~last'.ok /\ ~last'.raised
             /\ last'.message = "Invalid option"
             /\ last'.data = NoData
             /\ UNCHANGED <<polls, options, votes>>]_vars

\* A session holding a vote on a poll has just asked for an option of the
\* other poll and was rejected.
C11_Witness ==
    /\ last.op = "vote"
    /\ last.message = "Invalid option"
    /\ last.option_id \in DOMAIN options
    /\ options[last.option_id].poll_id # last.poll_id
    /\ RowsOfVoter(votes, last.poll_id, last.session_id) # {}

\* The step is the call vote(p, o, s) made while the commit raises; its
\* result is last'.
FailingVoteCall(p, o, s) == last'.op = "vote" /\ vote_commit_fails(p, o, s)

\* C12: a call of vote whose commit fails, on the new-vote path or on the
\* vote-change path, leaves polls, options and votes exactly as they were
\* before the call (no Vote row without its counters, no counter without
\* its row or reassignment), and the exception leaves the call.
C12_FailedCommitRollsBack ==
    [][\A p \in {last'.poll_id}, o \in {last'.option_id}, s \in {last'.session_id} :
          (/\ FailingVoteCall(p, o, s)
           /\ ActiveAndValid(p, o)
           /\ (RowsOfVoter(votes, p, s) = {} \/ polls[p].allow_vote_change)) =>
             /\ last'.raised /\ ~last'.ok
             /\ UNCHANGED <<polls, options, votes>>]_vars

\* The commit of a vote change to another option has just failed; the
\* voter's row still references the old option, which still counts 1.
C12_Witness ==
    /\ last.op = "vote"
    /\ last.raised
    /\ last.message = "OperationalError"
    /\ \E v \in RowsOfVoter(votes, last.poll_id, last.session_id) :
          /\ v.option_id # last.option_id
          /\ options[v.option_id].vote_count = 1
          /\ options[last.option_id].vote_count = 0

\* C13: what is committed between the steps of overlapping requests never
\* shows a part of a call of vote.  A step of a request either leaves polls,
\* options and votes unchanged, or it is the commit of that request, and
\* then the Vote row (inserted, or reassigned when the request chose
\* another option than the one it had loaded) and every counter the
\* request changed become visible together in that one step.
C13_VoteAndCountersVisibleTogether ==
    [][\A r \in ReqIds :
          (req[r].pc \notin {"idle", "done"} /\ req'[r] # req[r]) =>
             LET q == req'[r]
                 p == q.poll_id
                 o == q.option_id
                 h == VoterHash(q)
                 written(x) == x \in DOMAIN q.im /\ x \in DOMAIN req[r].im
                                  /\ q.im[x].vote_count # req[r].im[x].vote_count
             IN IF q.pc = "done" /\ q.outcome.ok
                THEN /\ \A x \in DOMAIN options' :
                           IF written(x)
                           THEN options'[x].vote_count = q.im[x].vote_count
                           ELSE options'[x] = options[x]
                     /\ IF q.outcome.message = "Vote recorded"
                        THEN /\ votes' = votes (+) SetToBag({VoteRow(p, h, o)})
                             /\ written(o)
                             /\ polls'[p].total_votes = LoadedPoll(req[r]).total_votes + 1
                        ELSE /\ polls' = polls
                             /\ BagCardinality(votes') = BagCardinality(votes)
                             /\ IF ExistingVote(req[r]).option_id # o
                                THEN /\ \A v \in VotesOf(votes', p, h) : v.option_id = o
                                     /\ written(o)
                                ELSE votes' = votes
                ELSE UNCHANGED <<polls, options, votes>>]_vars

\* One request has committed its new vote, row and counters, while the
\* other request is still between its steps.
C13_Witness ==
    \E r1, r2 \in ReqIds :
        /\ req[r1].pc = "done"
        /\ req[r1].outcome.message = "Vote recorded"
        /\ req[r2].pc \in {"loaded_option", "new", "change", "change_flush"}
        /\ req[r2].poll_id = req[r1].poll_id
        /\ VotesOf(votes, req[r1].poll_id, VoterHash(req[r1])) # {}
        /\ options[req[r1].option_id].vote_count = req[r1].im[req[r1].option_id].vote_count

\* C14: in every reachable state every option's vote_count is at least 0:
\* after new votes, vote changes away from an option and option deletions,
\* and under every interleaving of overlapping vote requests, vote changes
\* included.
C14_VoteCountNeverNegative ==
    \A o \in DOMAIN options : options[o].vote_count >= 0

\* A vote change has taken an option whose committed count was already 0
\* as its old option (an overlapping change of the same voter had moved
\* the vote first): the floor applied.
C14_Witness ==
    \E r \in ReqIds :
        /\ req[r].pc = "done"
        /\ req[r].outcome.message = "Vote changed successfully"
        /\ \E v \in req[r].existing :
              /\ v.option_id # req[r].option_id
              /\ v.option_id \in DOMAIN req[r].im
              /\ req[r].im[v.option_id].vote_count = 0
              /\ options[v.option_id].vote_count = 0
              /\ VotesOf(votes, req[r].poll_id, VoterHash(req[r])) # {}
              /\ \E q \in ReqIds \ {r} : req[q].outcome.message = "Vote changed successfully"

\* The step is an authorized call of the reopen route on poll p.
ReopenRouteCall(p) ==
    /\ last'.op = "reopen_poll_route"
    /\ last'.poll_id = p
    /\ \E u \in UserIds : reopen_poll_route(p, {}, u)

\* The step is a call of PollService.reopen_poll on poll p.
ReopenCall(p) == last'.op = "reopen_poll" /\ last'.ok /\ reopen_poll(p)

\* C15, as stated: reopening a poll whose expires_at is in the past, by
\* PollService.reopen_poll or through the reopen route, does not make the
\* poll active.
C15_ReopenLeavesExpiredInactive ==
    [][\A p \in DOMAIN polls :
          ((ReopenCall(p) \/ ReopenRouteCall(p)) /\ is_expired(polls[p], now)) =>
             ~is_active(polls'[p], now')]_vars

\* C15, amended: PollService.reopen_poll clears is_closed and nothing
\* else, so that a poll whose expires_at is in the past stays inactive
\* after it; the reopen route first clears an expiration that is in the
\* past, so that the poll is active, without expiration, after it.  A poll
\* that is not expired is active after either.
C15_ReopenRouteClearsExpiration ==
    [][\A p \in DOMAIN polls :
          /\ ReopenCall(p) =>
                /\ polls' = [polls EXCEPT ![p].is_closed = FALSE]
                /\ is_active(polls'[p], now') = ~is_expired(polls[p], now)
          /\ ReopenRouteCall(p) =>
                /\ polls' = [polls EXCEPT
                                ![p].is_closed = FALSE,
                                ![p].expires_at =
                                    IF \E e \in polls[p].expires_at : now > e
                                    THEN {} ELSE @]
                /\ is_active(polls'[p], now')]_vars

\* A poll has just been reopened through the route at the last instant of
\* the clock: it is active and holds no expiration.
C15_Witness ==
    /\ last.op = "reopen_poll_route"
    /\ last.ok
    /\ polls[last.poll_id].expires_at = {}
    /\ now = MaxTime
    /\ is_active(polls[last.poll_id], now)

\* The Vote rows of poll p, with their multiplicity.
VotesOfPoll(vs, p) == BagRestrict(vs, {v \in DOMAIN vs : v.poll_id = p})

\* Poll p is closed or expired at the clock t.
Inactive(pls, p, t) ==
    pls[p].is_closed \/ (\E e \in pls[p].expires_at : t > e)

\* Poll p exists and is inactive before and after the step.
StaysInactive(p) ==
    /\ p \in DOMAIN polls /\ Inactive(polls, p, now)
    /\ p \in DOMAIN polls' /\ Inactive(polls', p, now')

\* The step is a call of delete_poll_option on poll p that deleted option o.
DeleteOptionCall(p, o) ==
    /\ last'.op = "delete_poll_option" /\ last'.ok
    /\ last'.poll_id = p /\ last'.option_id = o
    /\ o \in DOMAIN options /\ o \notin DOMAIN options'

\* C16, as stated: while a poll stays closed or expired, no operation
\* creates, reassigns or removes a Vote row of that poll.
C16_VotesFrozenWhileInactive ==
    [][\A p \in PollIds :
          StaysInactive(p) => VotesOfPoll(votes', p) = VotesOfPoll(votes, p)]_vars

\* C16, amended: while a poll stays closed or expired, no call creates or
\* reassigns a Vote row of that poll, and rows are removed only by the
\* owner's deletion of an option, which removes exactly the rows of that
\* option.
C16_VotesOnlyRemovedWithOptionWhileInactive ==
    [][\A p \in PollIds :
          StaysInactive(p) =>
             IF \E o \in DOMAIN options : DeleteOptionCall(p, o)
             THEN \E o \in DOMAIN options :
                     /\ DeleteOptionCall(p, o)
                     /\ VotesOfPoll(votes', p) =
                           BagRestrict(VotesOfPoll(votes, p),
                                       {v \in DOMAIN votes : v.option_id # o})
             ELSE VotesOfPoll(votes', p) = VotesOfPoll(votes, p)]_vars

\* A vote has just been refused on a poll that is closed or expired and on
\* which a vote was cast before.
C16_Witness ==
    /\ last.op = "vote"
    /\ ~last.ok
    /\ last.message = "Poll is no longer active"
    /\ last.poll_id \in DOMAIN polls
    /\ Inactive(polls, last.poll_id, now)
    /\ VotesOfPoll(votes, last.poll_id) # EmptyBag

\* The step is a call of create_poll that created poll p and returned the
\* creator token ct.
CreateCall(p, ct) ==
    /\ last'.op = "create_poll" /\ last'.ok
    /\ last'.poll_id = p
    /\ last'.data = {[creator_token |-> ct]}
    /\ p \notin DOMAIN polls /\ p \in DOMAIN polls'

\* The token, if any, whose hash poll p stores.
TokenOf(p) == {t \in CreatorTokens : SHA256(t) = polls[p].creator_token_hash}

\* C17: a presented token makes its holder the creator of a poll exactly
\* when it is non-empty and its SHA-256 hash is the poll's
\* creator_token_hash; a session holding no token for the poll is not its
\* creator; the token create_poll returns proves creator rights for the
\* poll it created and for no other poll.
C17_IsCreatorIffTokenHashMatches ==
    /\ [](\A p \in DOMAIN polls :
            /\ ~is_poll_creator({}, polls[p])
            /\ \A t \in CreatorTokens \cup {""} :
                  is_poll_creator({t}, polls[p]) <=>
                     (t # "" /\ SHA256(t) = polls[p].creator_token_hash)
            /\ \A q \in DOMAIN polls \ {p} :
                  \A t \in TokenOf(q) : ~is_poll_creator({t}, polls[p]))
    /\ [][\A p \in TwoPollIds, ct \in CreatorTokens :
            CreateCall(p, ct) =>
               /\ is_poll_creator({ct}, polls'[p])
               /\ \A q \in DOMAIN polls' \ {p} : ~is_poll_creator({ct}, polls'[q])]_vars

\* Two polls exist, each with the hash of its own token, and the holder of
\* one poll's token has just been refused on the other poll.
C17_Witness ==
    /\ DOMAIN polls = TwoPollIds
    /\ \A p \in DOMAIN polls : TokenOf(p) # {}
    /\ last.op = "close_poll"
    /\ ~last.ok
    /\ last.message = "Unauthorized"
    /\ ~polls[last.poll_id].is_closed

\* The step is a call of one of the creator's routes on poll p by a
\* requester whose session holds stored_token for the poll and who is
\* logged in as current_user_id.  (The last four routes do not read the
\* session's token.)
CreatorRouteCall(p, stored_token, current_user_id) ==
    /\ last'.poll_id = p
    /\ \/ close_poll_route(p, stored_token, current_user_id)
       \/ reopen_poll_route(p, stored_token, current_user_id)
       \/ delete_poll_route(p, stored_token, current_user_id)
       \/ toggle_public_route(p, current_user_id)
       \/ \E a \in BOOLEAN, pub \in BOOLEAN :
             edit_poll_route(p, current_user_id, FormQuestion, a, pub, "never")
       \/ \E t \in AddTexts : add_poll_option(p, current_user_id, t)
       \/ \E o \in PollOptions(options, p) :
             delete_poll_option_route(p, o, current_user_id)

\* The answer turns the requester away: 403, or the login page.
TurnedAway(outcome) ==
    /\ ~outcome.ok
    /\ outcome.message \in {"Unauthorized", "Forbidden", "login required",
                             "Unauthorized or Not Found"}

\* C18: a creator-only operation (close, reopen, delete, edit settings,
\* toggle public, add option, delete option) is carried out exactly when
\* the requester presents a valid creator token for the poll or is the
\* logged-in owner; a requester with neither gets an error and the poll,
\* its options and its votes are unchanged.
C18_CreatorTokenOrOwnerAuthorizes ==
    [][\A p \in PollIds, st \in StoredTokens, u \in Requesters :
          CreatorRouteCall(p, st, u) =>
             IF is_poll_creator(st, polls[p]) \/ (u # Anonymous /\ polls[p].user_id = u)
             THEN ~TurnedAway(last')
             ELSE /\ TurnedAway(last')
                  /\ UNCHANGED <<polls, options, votes>>]_vars

\* C19: deriving the voter token of a session for a poll again gives the
\* token derived before, and hashing it again the hash computed before;
\* the tokens, and the hashes, that one session gets for two different
\* poll ids differ.
C19_VoterTokenPerSessionAndPoll ==
    /\ last.op \in {"generate_voter_token", "hash_voter_token"} =>
          \A d \in last.data :
             /\ d.token = generate_voter_token(last.session_id, last.poll_id)
             /\ last.poll_id # d.other_poll_id => d.token # d.other_token
    /\ last.op = "hash_voter_token" =>
          \A d \in last.data :
             /\ d.voter_hash =
                   hash_voter_token(generate_voter_token(last.session_id, last.poll_id))
             /\ last.poll_id # d.other_poll_id => d.voter_hash # d.other_voter_hash

\* The tokens of the session with the empty id have been derived and
\* hashed for two different polls.
C19_Witness ==
    /\ last.op = "hash_voter_token"
    /\ last.session_id = ""
    /\ \E d \in last.data :
          /\ last.poll_id \in TwoPollIds
          /\ d.other_poll_id \in TwoPollIds \ {last.poll_id}
          /\ d.voter_hash # d.other_voter_hash

C21_AnyChangedByteFailsDecrypt ==
    last.op = "decrypt_tampered" =>
       \A d \in last.data :
          /\ d.encrypted # d.original
          /\ last.raised /\ last.message = "ValueError" /\ d.decrypted = {}
          /\ d.decrypted \subseteq {d.plaintext}

\* C22: when the decryption of a poll's encrypted question fails, for a
\* changed blob or for a wrong key, get_question returns the stored
\* plaintext question, and neither an empty string nor any other text.
C22_FailedDecryptFallsBackToQuestion ==
    last.op = "get_question" =>
       \A d \in last.data :
          d.decrypted = {} => (d.result = d.poll.question /\ d.result # <<>>)

C24_KeyDerivedAtMostOnce ==
    \A k \in DOMAIN derivations : derivations[k] <= 1

\* 8 to 32 characters of [A-Za-z0-9_-]
WellFormedPollId(raw_id) ==
    /\ Len(raw_id) \in 8..32
    /\ \A i \in 1..Len(raw_id) : IsPollIdChar(raw_id[i])

\* C25: a request whose poll id is not 8 to 32 characters of [A-Za-z0-9_-]
\* is answered without the poll having been looked up, whatever the route.
C25_MalformedIdRejectedBeforeLookup ==
    \A d \in last.data :
        ("looked_up" \in DOMAIN d /\ ~WellFormedPollId(d.poll_id)) => ~d.looked_up

\* The step is a successful call of create_poll with this form.
CreatePollCall(p, ct, q, ol, e) ==
    /\ last'.op = "create_poll" /\ last'.ok
    /\ last'.poll_id = p
    /\ \E a \in BOOLEAN, u \in OwnerIds : create_poll(p, ct, q, ol, e, a, u)

\* The option texts of the form that pass "option_text and
\* option_text.strip()", stripped.
NonBlankTexts(ol) ==
    LET kept == SelectSeq(ol, LAMBDA t : strip(t) # <<>>)
    IN [i \in 1..Len(kept) |-> strip(kept[i])]

\* The option texts of poll p in the order of poll.options (display_order).
RECURSIVE OptionTextsInOrder(_, _)
OptionTextsInOrder(opts, S) ==
    IF S = {} THEN <<>>
    ELSE LET o == CHOOSE x \in S : \A y \in S : opts[x].display_order <= opts[y].display_order
         IN <<opts[o].option_text>> \o OptionTextsInOrder(opts, S \ {o})

\* What create_poll leaves behind, but for the question.
CreatedPoll(p, ct, ol, e) ==
    /\ (get_poll(PollIdText(p)))' = {polls'[p]}
    /\ OptionTextsInOrder(options', PollOptions(options', p)) = NonBlankTexts(ol)
    /\ polls'[p].total_votes = 0
    /\ \A o \in PollOptions(options', p) : options'[o].vote_count = 0
    /\ ~polls'[p].is_closed
    /\ Len(PollIdText(p)) = 16
    /\ is_valid_poll_id(PollIdText(p))
    /\ ct # ""
    /\ last'.data = {[creator_token |-> ct]}
    /\ polls'[p].creator_token_hash = hash_creator_token(ct)
    /\ e \notin {"1h", "24h", "7d", "30d"} =>
          \A t \in 0..(MaxTime + HOURS_30D) : ~is_expired(polls'[p], t)

CloseCall(p) == last'.op = "close_poll" /\ last'.ok /\ close_poll(p)

\* The step leaves the question, the creator token hash and total_votes of
\* poll p, every option row and every vote row as they were.
KeepsPollContent(p) ==
    /\ polls'[p].question = polls[p].question
    /\ polls'[p].creator_token_hash = polls[p].creator_token_hash
    /\ polls'[p].total_votes = polls[p].total_votes
    /\ options' = options
    /\ votes' = votes

\* C27: close_poll leaves is_closed true and reopen_poll leaves it false,
\* whatever it was before, and neither changes the question, the options,
\* the vote rows, the vote counts, total_votes or the creator token hash.
C27_CloseReopenSetOnlyIsClosed ==
    [][\A p \in DOMAIN polls :
          /\ CloseCall(p) => (polls'[p].is_closed /\ KeepsPollContent(p))
          /\ ReopenCall(p) => (~polls'[p].is_closed /\ KeepsPollContent(p))]_vars

\* A poll with a vote has been reopened.
C27_Witness ==
    /\ last.op = "reopen_poll" /\ last.ok
    /\ \E p \in DOMAIN polls :
          /\ last.poll_id = p
          /\ ~polls[p].is_closed
          /\ polls[p].total_votes > 0
          /\ VotesOfPoll(votes, p) # EmptyBag

NumOptions(opts, p) == Cardinality(PollOptions(opts, p))

\* The step is a request to delete an option of poll p.
DeleteOptionRequest(p) ==
    /\ last'.op = "delete_poll_option"
    /\ last'.poll_id = p

\* C28: a poll with at least 2 options has at least 2 options after every
\* option deletion, and a deletion requested of a poll with 2 options or
\* fewer is refused and removes neither an option nor a vote.
C28_AtLeastTwoOptionsKept ==
    [][\A p \in DOMAIN polls :
          DeleteOptionRequest(p) =>
             /\ NumOptions(options, p) >= 2 => NumOptions(options', p) >= 2
             /\ NumOptions(options, p) <= 2 =>
                   (~last'.ok /\ options' = options /\ votes' = votes)]_vars

\* The owner's request to delete an option with a vote of a poll of two
\* options has been refused.
C28_Witness ==
    /\ last.op = "delete_poll_option" /\ ~last.ok
    /\ last.message = "Poll must have at least 2 options"
    /\ \E p \in DOMAIN polls :
          /\ last.poll_id = p
          /\ NumOptions(options, p) = 2
          /\ last.option_id \in PollOptions(options, p)
          /\ options[last.option_id].vote_count > 0

\* The events client c was sent.
Delivered(d, c) == IF c \in DOMAIN d THEN d[c] ELSE <<>>

\* The step is a request of the vote route that recorded or changed a vote
\* on poll p.
VoteRouteSucceeds(p) ==
    /\ last = NoOutcome
    /\ last'.op = "vote" /\ last'.ok
    /\ last'.poll_id = p

\* C29: when a vote is recorded or changed on a poll, every client that is
\* in the room of the poll is sent an update.
C29_VoteUpdateEmittedToRoom ==
    [][\A p \in DOMAIN polls :
          VoteRouteSucceeds(p) =>
             \A c \in Room(RoomName(p)) :
                Len(Delivered(delivered', c)) > Len(Delivered(delivered, c))]_vars

\* The number of Vote rows that reference option o.
NumVotesForOption(vs, o) ==
    BagCardinality(BagRestrict(vs, {v \in DOMAIN vs : v.option_id = o}))

\* C30: in every state reached by votes, vote changes, option deletions,
\* added options, closings and reopenings made one after the other, the
\* vote_count of every option is the number of Vote rows that reference
\* it, and the total_votes of every poll is the number of its Vote rows.
C30_CountersEqualVoteRows ==
    /\ \A o \in DOMAIN options : options[o].vote_count = NumVotesForOption(votes, o)
    /\ \A p \in DOMAIN polls : polls[p].total_votes = BagCardinality(VotesOfPoll(votes, p))

\* Two voters have voted on a poll, the poll was closed, and an option
\* has just been deleted: one vote is left.
C30_Witness ==
    /\ last.op = "delete_poll_option" /\ last.ok
    /\ \E p \in DOMAIN polls :
          /\ last.poll_id = p
          /\ polls[p].total_votes = 1
          /\ polls[p].is_closed
          /\ Cardinality(voted) = 2

\* The requests r1 and r2 are two finished vote changes of one voter on one
\* poll towards different options, each of which found the voter's row as
\* it was when the first of them began: the second looked the row up
\* before the first committed.
TwoOverlappingChanges(r1, r2) ==
    /\ r1 # r2
    /\ req[r1].pc = "done" /\ req[r2].pc = "done"
    /\ req[r1].poll_id = req[r2].poll_id
    /\ req[r1].session_id = req[r2].session_id
    /\ req[r1].option_id # req[r2].option_id
    /\ req[r1].outcome.ok /\ req[r1].outcome.message = "Vote changed successfully"
    /\ req[r2].outcome.ok /\ req[r2].outcome.message = "Vote changed successfully"
    /\ req[r1].existing = req[r2].existing
    /\ req[r1].existing \subseteq RowsOfVoter(base.votes, req[r1].poll_id, req[r1].session_id)

\* C31: after two overlapping vote changes of the same voter towards
\* different options have both finished, the voter has exactly one Vote
\* row, total_votes is what it was before them, every option's vote_count
\* is the number of Vote rows that reference it, and total_votes is the sum
\* of the vote counts.
C31_OverlappingChangesKeepCounters ==
    \A r1, r2 \in ReqIds :
       TwoOverlappingChanges(r1, r2) =>
          LET p == req[r1].poll_id IN
          /\ BagCardinality(BagRestrict(votes, RowsOfVoter(votes, p, req[r1].session_id))) = 1
          /\ polls[p].total_votes = base.polls[p].total_votes
          /\ \A o \in PollOptions(options, p) :
                options[o].vote_count = NumVotesForOption(votes, o)
          /\ polls[p].total_votes = SumVoteCounts(options, p)

\* The voter's row of poll p references option o.
HoldsOption(vs, p, o, s) == \E v \in RowsOfVoter(vs, p, s) : v.option_id = o

\* C32: on an active poll with allow_vote_change true, a call of vote by a
\* voter whose row references the requested option succeeds as a vote
\* change and leaves the Vote rows, every option's vote_count and
\* total_votes as they were, each time it is made.
C32_ChangeToHeldOptionChangesNothing ==
    [][\A p \in DOMAIN polls, o \in OptionIdInputs, s \in SessionIds :
          (/\ last'.op = "vote" /\ last'.option_id = o /\ last'.session_id = s
           /\ ActiveAndValid(p, o)
           /\ polls[p].allow_vote_change
           /\ HoldsOption(votes, p, o, s)
           /\ VoteCall(p, o, s))
          => /\ last'.ok /\ last'.message = "Vote changed successfully"
             /\ votes' = votes
             /\ options' = options
             /\ polls' = polls]_vars

\* A voter has just voted again for the option of their row and the call
\* was answered as a vote change, while another voter holds a vote too.
C32_Witness ==
    /\ last.op = "vote" /\ last.ok /\ last.message = "Vote changed successfully"
    /\ HoldsOption(votes, last.poll_id, last.option_id, last.session_id)
    /\ Cardinality(voted) = 2

\* The step is the owner's call of delete_poll_option for option o of
\* poll p, which has more than 2 options.
DeleteOfThirdOption(p, o) ==
    /\ last'.op = "delete_poll_option"
    /\ o \in PollOptions(options, p)
    /\ Cardinality(PollOptions(options, p)) > MIN_POLL_OPTIONS
    /\ delete_poll_option(p, o, polls[p].user_id)

\* The session s has voted on poll p since it was created and has no Vote
\* row on it: its row went with a deleted option.
VoteWasRemoved(vs, p, s) == <<p, s>> \in voted /\ RowsOfVoter(vs, p, s) = {}

\* C33: deleting an option of a poll that has more than 2 options removes
\* the option and exactly the Vote rows that reference it, lowers
\* total_votes by the option's vote_count and leaves the other options as
\* they were; a voter whose row was removed has no row on the poll, and
\* their next call of vote on the poll, if it is active and the option is
\* one of the poll's, is recorded as a new vote whatever allow_vote_change
\* says.
C33_DeleteOptionRemovesItsVotes ==
    [][/\ \A p \in DOMAIN polls, o \in OptionIdInputs :
             DeleteOfThirdOption(p, o) =>
                /\ last'.ok
                /\ options' = Restrict(options, DOMAIN options \ {o})
                /\ votes' = BagRestrict(votes, {v \in DOMAIN votes : v.option_id # o})
                /\ polls' = [polls EXCEPT ![p].total_votes = @ - options[o].vote_count]
                /\ \A s \in SessionIds :
                      HoldsOption(votes, p, o, s) => VoteWasRemoved(votes', p, s)
       /\ \A p \in DOMAIN polls, o \in OptionIdInputs, s \in SessionIds :
             (/\ last'.op = "vote" /\ last'.option_id = o /\ last'.session_id = s
              /\ VoteWasRemoved(votes, p, s)
              /\ ActiveAndValid(p, o)
              /\ VoteCall(p, o, s))
             => /\ last'.ok /\ last'.message = "Vote recorded"
                /\ votes' = votes (+) SetToBag({VoteRow(p, hash_voter_token(generate_voter_token(s, p)), o)})
                /\ polls'[p].total_votes = polls[p].total_votes + 1]_vars

\* An option that held a vote has just been deleted from an active poll
\* with allow_vote_change false: its voter has no row left, and another
\* voter's row stays.
C33_Witness ==
    /\ last.op = "delete_poll_option" /\ last.ok
    /\ \E p \in DOMAIN polls :
          /\ last.poll_id = p
          /\ ~polls[p].allow_vote_change
          /\ ~polls[p].is_closed
          /\ ~(\E e \in polls[p].expires_at : now > e)
          /\ polls[p].total_votes = 1
          /\ \E s \in SessionIds : VoteWasRemoved(votes, p, s)

\* Every Vote row references a poll that exists and an option that exists
\* and is an option of that poll.
VotesReferenceOwnPoll ==
    \A v \in DOMAIN votes :
       /\ v.poll_id \in DOMAIN polls
       /\ v.option_id \in DOMAIN options
       /\ options[v.option_id].poll_id = v.poll_id

\* The step is the call delete_poll(p).
DeletePollCall(p) == last'.op = "delete_poll" /\ delete_poll(p)

\* The step removes poll p with its options and its Vote rows and leaves
\* the rows of every other poll as they were.
RemovesOnlyPoll(p) ==
    /\ polls' = Restrict(polls, DOMAIN polls \ {p})
    /\ options' = Restrict(options, {o \in DOMAIN options : options[o].poll_id # p})
    /\ votes' = BagRestrict(votes, {v \in DOMAIN votes : v.poll_id # p})
    /\ \A o \in DOMAIN options' : options'[o].poll_id # p
    /\ \A v \in DOMAIN votes' : v.poll_id # p

\* C34: in every state every Vote row references an existing poll and an
\* existing option of that same poll, and a call of delete_poll removes
\* the poll, all of its options and all of its Vote rows and leaves the
\* other polls, their options, their Vote rows and their counters as they
\* were.
C34_VotesReferenceOwnPollAndCascade ==
    /\ []VotesReferenceOwnPoll
    /\ [][\A p \in DOMAIN polls : DeletePollCall(p) => RemovesOnlyPoll(p)]_vars

\* A poll has just been deleted while another poll, which has a vote,
\* stays with its options.
C34_Witness ==
    /\ last.op = "delete_poll" /\ last.ok
    /\ last.poll_id \notin DOMAIN polls
    /\ \E p \in DOMAIN polls :
          /\ polls[p].total_votes = 1
          /\ BagCardinality(VotesOfPoll(votes, p)) = 1
          /\ Cardinality(PollOptions(options, p)) = 2

\* The step is a call of cleanup_expired_polls.
CleanupCall == last'.op = "cleanup_expired_polls" /\ cleanup_expired_polls

\* The polls for which is_expired is true at time t.
PollsExpiredAt(pls, t) == {p \in DOMAIN pls : is_expired(pls[p], t)}

\* C35: a call of cleanup_expired_polls deletes exactly the polls whose
\* is_expired is true at the time of the call, with their options and
\* their Vote rows, returns how many polls it deleted, and leaves every
\* other poll, closed or not, with its options and votes as they were.
C35_CleanupDeletesExactlyExpired ==
    [][CleanupCall =>
          LET E == PollsExpiredAt(polls, now) IN
          /\ polls' = Restrict(polls, DOMAIN polls \ E)
          /\ options' = Restrict(options, {o \in DOMAIN options : options[o].poll_id \notin E})
          /\ votes' = BagRestrict(votes, {v \in DOMAIN votes : v.poll_id \notin E})
          /\ last'.data = {[count |-> Cardinality(E)]}]_vars

\* The cleanup has just deleted one poll and left another, which is
\* closed, has a vote and expires later than now.
C35_Witness ==
    /\ last.op = "cleanup_expired_polls"
    /\ last.data = {[count |-> 1]}
    /\ \E p \in DOMAIN polls :
          /\ polls[p].is_closed
          /\ polls[p].total_votes = 1
          /\ \E e \in polls[p].expires_at : e >= now

\* The step is the call add_option(p, t), whose result is last'.
AddOptionCall(p, t) ==
    last'.op = "add_option" /\ add_option_within(p, t, MaxAddedOptionId)

\* Why add_option has to reject the sanitized text x for poll p: it is
\* empty or longer than 200 characters, the poll has 10 options, or an
\* option of the poll has the same text ignoring case.
MustReject(p, x) ==
    \/ x = <<>>
    \/ Len(x) > MAX_OPTION_LENGTH
    \/ Cardinality(PollOptions(options, p)) >= MAX_POLL_OPTIONS
    \/ \E o \in PollOptions(options, p) : lower(options[o].option_text) = lower(x)

\* C36: a call of add_option is rejected, leaving the poll, its options
\* and its counters as they were, when the text is empty or longer than
\* 200 characters, the poll has 10 options already or an option of the
\* poll has the same text ignoring case; otherwise it adds one option with
\* that text, vote_count 0 and a display_order greater than that of every
\* option the poll had, so that the poll never has more than 10 options
\* through it.
C36_AddOptionWithinLimits ==
    [][\A p \in DOMAIN polls, t \in OptionTextInputs :
          AddOptionCall(p, t) =>
             IF MustReject(p, sanitize_text(t))
             THEN ~last'.ok /\ polls' = polls /\ options' = options /\ votes' = votes
             ELSE /\ last'.ok
                  /\ polls' = polls /\ votes' = votes
                  /\ \E n \in DOMAIN options' \ DOMAIN options :
                        /\ options' = options @@ (n :> options'[n])
                        /\ options'[n].poll_id = p
                        /\ options'[n].option_text = sanitize_text(t)
                        /\ options'[n].vote_count = 0
                        /\ \A o \in PollOptions(options, p) :
                              options'[n].display_order > options[o].display_order
                  /\ Cardinality(PollOptions(options', p)) <= MAX_POLL_OPTIONS]_vars

\* An option has just been added as the tenth of a poll that holds a
\* vote.
C36_Witness ==
    /\ last.op = "add_option" /\ last.ok
    /\ Cardinality(PollOptions(options, last.poll_id)) = MAX_POLL_OPTIONS
    /\ polls[last.poll_id].total_votes = 1

\* The step is a login that succeeded.
LoginSucceeds == last'.op = "login" /\ last'.ok

\* A session_id, once assigned, is changed by no request but a login that
\* succeeds.
SessionIdKept ==
    (session.session_id # {} /\ ~LoginSucceeds) => session'.session_id = session.session_id

\* A login that succeeds gives the session an id never issued before and
\* leaves it no creator token.
LoginRegenerates ==
    LoginSucceeds =>
       /\ session'.session_id # {}
       /\ session'.session_id \cap (issued \cup session.session_id) = {}
       /\ session'.creator_tokens = <<>>

\* The step is a visit of the page of poll p, answered with has_voted.
ViewShowsVoted(p) ==
    /\ last'.op = "view_poll" /\ last'.poll_id = p
    /\ \A d \in last'.data : d.has_voted

\* The step is a visit of the page of poll p.
ViewStep(p) == last'.op = "view_poll" /\ last'.poll_id = p

\* The step is a deletion of the option that the session's Vote row on
\* poll p references.
DeletesVotedOption(p) ==
    /\ last'.op = "delete_poll_option" /\ last'.ok /\ last'.poll_id = p
    /\ \E v \in existing_vote(session, votes, p) : v.option_id = last'.option_id

\* C37, as stated: a session_id is assigned only when absent and changed
\* only by a successful login, which replaces it with a fresh one and
\* drops every creator token; and every visit of a poll on which the
\* browser has voted under its present session_id shows has_voted true.
C37_HasVotedUntilLogin ==
    [][/\ SessionIdKept
       /\ LoginRegenerates
       /\ \A p \in DOMAIN polls :
             (ViewStep(p) /\ <<p, SessionId(session)>> \in voted) => ViewShowsVoted(p)]_vars

\* C37, amended: the same for the session_id and the login; the Vote row
\* of the session on a poll stays the session's through every step that
\* is neither a successful login nor the deletion of the option the row
\* references, and a visit of the poll shows has_voted true exactly when
\* the session has a Vote row on it.
C37_HasVotedUntilLoginOrOptionDeleted ==
    [][/\ SessionIdKept
       /\ LoginRegenerates
       /\ \A p \in DOMAIN polls :
             /\ (/\ existing_vote(session, votes, p) # {}
                 /\ ~LoginSucceeds
                 /\ ~DeletesVotedOption(p))
                => existing_vote(session', votes', p) # {}
             /\ ViewStep(p) =>
                   (ViewShowsVoted(p) <=> existing_vote(session', votes', p) # {})]_vars

\* A second login has just succeeded: the session has its third id and no
\* creator token, the poll created after the first login exists, and the
\* vote cast under the previous id is not the new session's.
C37_Witness ==
    /\ last.op = "login" /\ last.ok
    /\ Cardinality(issued) = 3
    /\ session.creator_tokens = <<>>
    /\ \E p \in DOMAIN polls :
          /\ \E h \in voted : h[1] = p /\ h[2] \in issued
          /\ polls[p].total_votes = 1
          /\ existing_vote(session, votes, p) = {}

\* C38: for two different pairs of a session id and a poll id whose poll
\* ids pass is_valid_poll_id, the texts session_id + ':' + poll_id that
\* generate_voter_token hashes are different.
C38_DerivationInputsDiffer ==
    last.op = "voter_token_message" =>
       \A d \in last.data :
          (/\ d.valid /\ d.other_valid
           /\ <<d.session_id, d.poll_id>> # <<d.other_session_id, d.other_poll_id>>)
          => d.message # d.other_message

\* The messages were built for two poll ids of the format and two session
\* ids of which one holds a colon, the other session id followed by the
\* other poll id beginning like it.
C38_Witness ==
    /\ last.op = "voter_token_message"
    /\ \E d \in last.data :
          /\ d.valid /\ d.other_valid
          /\ d.session_id = <<120, 58, 121>>
          /\ d.other_session_id = <<120>>
          /\ d.poll_id = [i \in 1..8 |-> 122]
          /\ d.other_poll_id = <<121>> \o [i \in 1..7 |-> 122]
          /\ d.message # d.other_message
====
